---- MODULE Spec2Model ----
(***************************************************************************)
(* Model of the ensmallen_graph constructor/normalizer (constructors.rs)   *)
(* and of the sampler/holdout operations (holdouts.rs).                    *)
(*                                                                         *)
(* Node names are opaque strings: an edge row either repeats a name the    *)
(* vocabulary already holds or introduces a fresh one, which               *)
(* Vocabulary::insert numbers with the current vocabulary length.  Rows    *)
(* are therefore kept with the node ids the vocabulary hands out.          *)
(* Option<T> values use None (-1) for the absent case; Option<Vec<T>> and  *)
(* Option<set> values are records [some, v].                               *)
(***************************************************************************)
EXTENDS Integers, Sequences, FiniteSets, TLC

\* ------------------------------------------------------------------ bounds
MaxNodes == 2
MaxRows == 2          \* rows of an edge list that carries types or weights
MaxPlainRows == 3     \* rows of an edge list of bare (source, destination) pairs

MaxGraphNodes == 2    \* nodes of the parent graph of a holdout or of a sampling
MaxGraphEdges == 3    \* logical edges of the parent graph
MaxNegatives == 3     \* negatives_number
MaxNames == 2         \* node names an input file can use
MaxNameRows == 2      \* rows of an edge list of names
MaxWalkLength == 3    \* length of a walk
MaxIterations == 2    \* iterations of a walk request
MaxCallers == 2       \* threads that call textual_report on one graph
MaxBatches == 3       \* candidate batches drawn by one sampling

None == -1
EdgeTypeIds == {0, 1}
WeightValues == {1, 2}

\* ------------------------------------------------------------------ state
VARIABLES
    pc,                             \* "input" | "build" | "done"
    rows,                           \* edge rows read so far (node ids, Option type, Option weight)
    nodes_number,                   \* nodes.len()
    directed, directed_edge_list, ignore_duplicated_edges,
    has_edge_types, has_edge_weights, edge_list_is_correct,
    might_have_singletons, might_have_singletons_with_selfloops, might_have_trap_nodes,
    sorted_input,                   \* TRUE: from_string_sorted, FALSE: from_string_unsorted
    stream,                         \* edges_iter handed to build_edges
    idx,                            \* next row of stream
    node_bits,
    edges, edge_type_ids, weights, unique_sources,
    not_singleton_nodes, singleton_nodes_with_selfloops,
    last_src, last_dst, last_edge_type, first,
    unique_edges_number, unique_selfloop_number, selfloop_number,
    forward_undirected_edges_counter, backward_undirected_edges_counter,
    not_singleton_node_number,
    singleton_nodes_with_selfloops_number,
    result,                         \* "none" | "Ok" | error kind | "Panic"
    \* holdout
    connected,                      \* TRUE: connected_holdout, FALSE: random_holdout
    train_size,                     \* in quarters
    include_all_edge_types,
    edge_types_filter,              \* the edge_type_ids of the call, Option<HashSet>
    min_number_overlaps,
    tree,
    edge_indices,                   \* shuffled edge ids not iterated yet
    valid_edges_number,
    valid_edges_bitmap,
    train, valid,                   \* edge lists of the returned graphs
    \* sample_negatives
    overflow_checks,                \* build profile: debug (TRUE) or release (FALSE)
    negatives_number,
    seed_graph,                     \* Option<&Graph>: its node ids and edge list
    seed_nodes,
    negative_edges_bitmap,
    negatives,                      \* edge list of the returned graph
    \* node names
    has_nodes_list,                 \* nodes_iterator.is_some()
    numeric_node_ids,
    numeric_edge_node_ids,
    ignore_duplicated_nodes,
    nodes,                          \* the Vocabulary of node names
    node_rows_read,                 \* rows of the node list consumed so far
    empty_nodes_mapping,
    \* a holdout called again
    random_state,
    shuffled,                       \* the shuffled edge_indices gone through, where kept
    earlier,                        \* the arguments and the return value of an earlier call
    \* queries
    answer,                         \* the value a getter returned
    \* walks
    length, iterations, start_node, end_node,
    source, iteration,              \* the walk under way
    walk,
    emitted,                        \* the number of walks emitted from each node
    \* the textual report
    cached_report,                  \* RwLock<Option<String>>: the value behind the lock
    readers,                        \* the callers that hold a read guard
    writer,                         \* the caller that holds the write guard
    caller_pc,                      \* where each caller of textual_report stands
    returned,                       \* what each caller returned
    \* random_subgraph
    subgraph_nodes_number,          \* the nodes_number argument
    shuffled_nodes,                 \* the nodes of the shuffled vector not iterated yet
    unique_nodes,
    subgraph                        \* edge list of the returned graph

flagVars == <<directed, directed_edge_list, ignore_duplicated_edges,
              has_edge_types, has_edge_weights, edge_list_is_correct,
              might_have_singletons, might_have_singletons_with_selfloops,
              might_have_trap_nodes, sorted_input>>

frameVars == <<node_bits, edges, edge_type_ids, weights, unique_sources,
               not_singleton_nodes, singleton_nodes_with_selfloops,
               last_src, last_dst, last_edge_type, first,
               unique_edges_number, unique_selfloop_number, selfloop_number,
               forward_undirected_edges_counter, backward_undirected_edges_counter,
               not_singleton_node_number, singleton_nodes_with_selfloops_number>>

buildVars == <<pc, rows, nodes_number, flagVars, stream, idx, frameVars, result>>

holdoutVars == <<connected, train_size, include_all_edge_types, edge_types_filter,
                 min_number_overlaps, tree, edge_indices, valid_edges_number,
                 valid_edges_bitmap, train, valid>>

namesVars == <<has_nodes_list, numeric_node_ids, numeric_edge_node_ids,
               ignore_duplicated_nodes, nodes, node_rows_read, empty_nodes_mapping>>

repeatVars == <<random_state, shuffled, earlier>>

queryVars == <<answer>>

walkVars == <<length, iterations, start_node, end_node, source, iteration, walk,
              emitted>>

reportVars == <<cached_report, readers, writer, caller_pc, returned>>

subgraphVars == <<subgraph_nodes_number, shuffled_nodes, unique_nodes, subgraph>>

laterVars == <<reportVars, subgraphVars>>

extraVars == <<queryVars, walkVars, laterVars>>

negativesVars == <<overflow_checks, negatives_number, seed_graph, seed_nodes,
                   negative_edges_bitmap, negatives>>

\* ------------------------------------------------------------------ helpers
Some(x) == [some |-> TRUE, v |-> x]
NoVec == [some |-> FALSE, v |-> <<>>]
NoSet == [some |-> FALSE, v |-> {}]

Quadruple(s, d, t, w) == [src |-> s, dst |-> d, edge_type |-> t, weight |-> w]

Triple(r) == <<r.src, r.dst, r.edge_type>>

\* Ord for (NodeT, NodeT, Option<EdgeTypeT>): lexicographic, None < Some(_)
TripleLess(a, b) ==
    \/ a.src < b.src
    \/ a.src = b.src /\ a.dst < b.dst
    \/ a.src = b.src /\ a.dst = b.dst /\ a.edge_type < b.edge_type

TripleLeq(a, b) == TripleLess(a, b) \/ Triple(a) = Triple(b)

IsSortedStream(s) == \A i \in 1..(Len(s) - 1) : TripleLeq(s[i], s[i + 1])

\* an edge list without type and weight columns
IsPlain(s) == \A i \in 1..Len(s) : s[i].edge_type = None /\ s[i].weight = None

RECURSIVE Pow2(_)
Pow2(n) == IF n = 0 THEN 1 ELSE 2 * Pow2(n - 1)

RECURSIVE BitOr(_, _)
BitOr(a, b) ==
    IF a = 0 THEN b
    ELSE IF b = 0 THEN a
    ELSE (IF a % 2 = 1 \/ b % 2 = 1 THEN 1 ELSE 0) + 2 * BitOr(a \div 2, b \div 2)

RECURSIVE NodeBitsFrom(_, _)
NodeBitsFrom(n, b) == IF Pow2(b) >= n THEN b ELSE NodeBitsFrom(n, b + 1)

\* node_bits = ceil(log2(max(N, 2)))
get_node_bits(n) == NodeBitsFrom(IF n < 2 THEN 2 ELSE n, 0)

\* (src << node_bits) | dst
encode_edge(src, dst, bits) == BitOr(src * Pow2(bits), dst)

\* EliasFano::rank: index (0-based) of the first stored value equal to x, if any
rank(ef, x) ==
    IF \E i \in 1..Len(ef) : ef[i] = x
    THEN (CHOOSE i \in 1..Len(ef) : ef[i] = x /\ \A j \in 1..(i - 1) : ef[j] # x) - 1
    ELSE None

\* EliasFano::unchecked_rank: number of stored values smaller than x
unchecked_rank(ef, x) == Cardinality({i \in 1..Len(ef) : ef[i] < x})

\* weights must be finite and strictly positive
validate_weight(w) == w > 0

RECURSIVE SetToSortedSeq(_)
SetToSortedSeq(S) ==
    IF S = {} THEN <<>>
    ELSE LET m == CHOOSE x \in S : \A y \in S : TripleLeq(x, y)
         IN <<m>> \o SetToSortedSeq(S \ {m})

RECURSIVE NatSetToSeq(_)
NatSetToSeq(S) ==
    IF S = {} THEN <<>>
    ELSE LET m == CHOOSE x \in S : \A y \in S : x <= y
         IN <<m>> \o NatSetToSeq(S \ {m})

\* ------------------------------------------------------------------ parsing
Mirror(r) == Quadruple(r.dst, r.src, r.edge_type, r.weight)

\* Vec::par_sort_by on (src, dst, edge_type): a stable sort
RECURSIVE InsertSorted(_, _)
InsertSorted(s, r) ==
    IF s = <<>> THEN <<r>>
    ELSE IF TripleLess(r, Head(s)) THEN <<r>> \o s
    ELSE <<Head(s)>> \o InsertSorted(Tail(s), r)

RECURSIVE SortQuadruples(_)
SortQuadruples(s) ==
    IF s = <<>> THEN <<>>
    ELSE InsertSorted(SortQuadruples(SubSeq(s, 1, Len(s) - 1)), s[Len(s)])

\* mutant: the quadruples are handed over in input order
parse_unsorted_quadruples_InputOrder(edges_) == edges_

parse_unsorted_quadruples(edges_) == SortQuadruples(edges_)

\* the flat_map of parse_string_unsorted_edges: edge types are dropped when
\* has_edge_types is false, non-selfloops are mirrored for undirected graphs
\* whose edge list is not directed
RECURSIVE UnsortedQuadruples(_, _, _, _)
UnsortedQuadruples(in, dir, del, het) ==
    IF in = <<>> THEN <<>>
    ELSE LET h == Head(in)
             q == Quadruple(h.src, h.dst, IF het THEN h.edge_type ELSE None, h.weight)
         IN (IF ~dir /\ q.src # q.dst /\ ~del THEN <<q, Mirror(q)>> ELSE <<q>>)
            \o UnsortedQuadruples(Tail(in), dir, del, het)

parse_string_unsorted_edges(in, dir, del, het) ==
    parse_unsorted_quadruples(UnsortedQuadruples(in, dir, del, het))

\* BTreeMap::insert on sorting_tmp: one value per (dst, src, edge_type) key,
\* a later insert replaces the weight
SortingTmpInsert(tmp, r) == {x \in tmp : Triple(x) # Triple(r)} \cup {r}

RECURSIVE ParseSortedRows(_, _, _, _)
ParseSortedRows(in, i, sorting_tmp, results) ==
    IF i > Len(in)
    THEN results \o SetToSortedSeq(sorting_tmp)
    ELSE LET row == in[i]
             tmp1 == IF row.src < row.dst
                     THEN SortingTmpInsert(sorting_tmp, Mirror(row))
                     ELSE sorting_tmp
             smaller == {x \in tmp1 : TripleLess(x, row)}
         IN ParseSortedRows(in, i + 1, tmp1 \ smaller,
                            results \o SetToSortedSeq(smaller) \o <<row>>)

parse_sorted_edges(in, dir, del) ==
    IF dir \/ del THEN in ELSE ParseSortedRows(in, 1, {}, <<>>)

\* ------------------------------------------------------------------ build_edges
\* the loop after a node was removed from singleton_nodes_with_selfloops, if
\* it exited there
AfterRemoval_EarlyExit(st) == [st EXCEPT !.brk = TRUE]

\* the loop after a node was removed from singleton_nodes_with_selfloops: it
\* goes on to the other endpoint
AfterRemoval(st) == st

\* one endpoint of the `for node in &[src, dst]` loop over not_singleton_nodes
VisitEndpoint(st, node, selfloop, has_bitmap) ==
    IF st.brk THEN st
    ELSE IF node \notin st.nwe
    THEN LET st1 == [st EXCEPT !.nwe = @ \cup {node}]
         IN IF ~selfloop \/ ~has_bitmap
            THEN [st1 EXCEPT !.num = @ + 1]
            ELSE [st1 EXCEPT !.bitmap = @ \cup {node}, !.brk = TRUE]
    ELSE IF ~selfloop /\ has_bitmap /\ node \in st.bitmap
    THEN AfterRemoval([st EXCEPT !.bitmap = @ \ {node}, !.num = @ + 1])
    ELSE st

\* mutant: the lookup stops at the first edge between dst and src, whatever its
\* edge type
ForwardEdgeId_AnyType(src, dst, edge_type) ==
    rank(edges, encode_edge(dst, src, node_bits))

\* the forward edge id looked up for a row with src > dst
ForwardEdgeId(src, dst, edge_type) ==
    LET min_edge_id == rank(edges, encode_edge(dst, src, node_bits))
    IN IF min_edge_id = None THEN None
       ELSE IF ~edge_type_ids.some THEN min_edge_id
       ELSE LET max_edge_id == unchecked_rank(edges, encode_edge(dst, src + 1, node_bits))
                found == {e \in min_edge_id..(max_edge_id - 1) :
                            edge_type_ids.v[e + 1] = edge_type}
            IN IF found = {} THEN None
               ELSE CHOOSE e \in found : \A f \in found : e <= f

Fail(kind) ==
    /\ result' = kind
    /\ pc' = "done"
    /\ UNCHANGED <<rows, nodes_number, flagVars, stream, idx, frameVars>>

\* the weight match without its push
WeightOutcome_NoPush(weight) ==
    IF ~weights.some /\ weight # None THEN "BadWeight"
    ELSE IF weights.some /\ weight = None THEN "BadWeight"
    ELSE "skip"

\* the weight match of the loop body: "push", "skip" or an error
WeightOutcome(weight) ==
    IF weights.some /\ weight # None
    THEN (IF validate_weight(weight) THEN "push" ELSE "BadWeight")
    ELSE IF ~weights.some /\ weight # None THEN "BadWeight"
    ELSE IF weights.some /\ weight = None THEN "BadWeight"
    ELSE "skip"

\* mutant: the duplicate check is missing
IsDuplicateRow_Missing(row) == row # row

\* mutant: the duplicate check compares the endpoints only
IsDuplicateRow_EndpointsOnly(row) ==
    ~(  (last_src # row.src \/ first)
     \/ (last_dst # row.dst \/ first))

IsDuplicateRow(row) ==
    ~(  (last_src # row.src \/ first)
     \/ (last_dst # row.dst \/ first)
     \/ (last_edge_type # row.edge_type \/ first))

\* ------------------------------------------------------------------ constructor
InitBuild ==
    /\ pc = "input"
    /\ rows = <<>>
    /\ nodes_number = 0
    /\ has_edge_types \in BOOLEAN          \* whether the edge list has a type column
    /\ directed = FALSE /\ directed_edge_list = FALSE
    /\ ignore_duplicated_edges = FALSE
    /\ has_edge_weights = FALSE /\ edge_list_is_correct = FALSE
    /\ might_have_singletons = FALSE
    /\ might_have_singletons_with_selfloops = FALSE
    /\ might_have_trap_nodes = FALSE
    /\ sorted_input = FALSE
    /\ stream = <<>> /\ idx = 1
    /\ node_bits = 0
    /\ edges = <<>> /\ edge_type_ids = NoVec /\ weights = NoVec /\ unique_sources = NoVec
    /\ not_singleton_nodes = NoSet /\ singleton_nodes_with_selfloops = NoSet
    /\ last_src = 0 /\ last_dst = 0 /\ last_edge_type = None /\ first = TRUE
    /\ unique_edges_number = 0 /\ unique_selfloop_number = 0 /\ selfloop_number = 0
    /\ forward_undirected_edges_counter = 0 /\ backward_undirected_edges_counter = 0
    /\ not_singleton_node_number = 0
    /\ singleton_nodes_with_selfloops_number = 0
    /\ result = "none"

\* parse_edges_node_ids on one more row of the edge list, with no node list:
\* nodes.insert returns the id of a known name or nodes.len() for a new one
ReadEdgeRow ==
    /\ pc = "input"
    /\ Len(rows) < (IF IsPlain(rows) THEN MaxPlainRows ELSE MaxRows)
    /\ \E src \in 0..(MaxNodes - 1), dst \in 0..(MaxNodes - 1),
          edge_type \in (IF has_edge_types THEN EdgeTypeIds ELSE {None}),
          weight \in {None} \cup WeightValues :
          /\ Len(rows) >= MaxRows => edge_type = None /\ weight = None
          /\ src <= nodes_number
          /\ dst <= (IF src = nodes_number THEN nodes_number + 1 ELSE nodes_number)
          /\ rows' = Append(rows, Quadruple(src, dst, edge_type, weight))
          /\ nodes_number' = (IF dst >= nodes_number \/ src >= nodes_number
                              THEN (IF dst > src THEN dst ELSE src) + 1
                              ELSE nodes_number)
    /\ UNCHANGED <<pc, flagVars, stream, idx, frameVars, result>>

\* the locals of build_edges before its loop
EnterBuildEdges(edges_iter, n, ign, hw, het, mhs, mhsws, mht, dir, elic) ==
    /\ stream' = edges_iter
    /\ idx' = 1
    /\ ignore_duplicated_edges' = ign
    /\ has_edge_weights' = hw
    /\ has_edge_types' = het
    /\ might_have_singletons' = mhs
    /\ might_have_singletons_with_selfloops' = mhsws
    /\ might_have_trap_nodes' = mht
    /\ directed' = dir
    /\ edge_list_is_correct' = elic
    /\ node_bits' = get_node_bits(n)
    /\ edges' = <<>>
    /\ edge_type_ids' = (IF het THEN Some(<<>>) ELSE NoVec)
    /\ weights' = (IF hw THEN Some(<<>>) ELSE NoVec)
    /\ unique_sources' = (IF dir /\ (mht \/ mhs) THEN Some(<<>>) ELSE NoVec)
    /\ not_singleton_nodes' = (IF (mhs \/ mhsws) /\ n > 0 THEN Some({}) ELSE NoSet)
    /\ last_src' = 0 /\ last_dst' = 0 /\ last_edge_type' = None
    /\ unique_edges_number' = 0 /\ unique_selfloop_number' = 0 /\ selfloop_number' = 0
    /\ forward_undirected_edges_counter' = 0
    /\ backward_undirected_edges_counter' = 0
    /\ not_singleton_node_number' = (IF mhs \/ mhsws THEN 0 ELSE n)
    /\ singleton_nodes_with_selfloops' = (IF mhsws THEN Some({}) ELSE NoSet)
    /\ singleton_nodes_with_selfloops_number' = 0
    /\ first' = TRUE
    /\ pc' = "build"

\* Graph::from_string_unsorted without a node list, up to the loop of build_edges
from_string_unsorted ==
    /\ pc = "input"
    /\ \E dir \in BOOLEAN, del \in BOOLEAN, ign \in BOOLEAN, hw \in BOOLEAN :
          /\ dir => ~del
          /\ sorted_input' = FALSE
          /\ directed_edge_list' = del
          /\ EnterBuildEdges(
                parse_string_unsorted_edges(rows, dir, del, has_edge_types),
                nodes_number, ign, hw, has_edge_types,
                FALSE,              \* !nodes.is_empty() && might_have_singletons
                TRUE,
                dir,                \* directed && might_have_trap_nodes
                dir,
                ~del)               \* edge_list_is_correct || !directed_edge_list
    /\ UNCHANGED <<rows, nodes_number, result>>

\* Graph::from_string_sorted without a node list, on a sorted edge list,
\* up to the loop of build_edges
from_string_sorted ==
    /\ pc = "input"
    /\ IsSortedStream(rows)
    /\ \E dir \in BOOLEAN, del \in BOOLEAN, ign \in BOOLEAN, hw \in BOOLEAN :
          /\ dir => ~del
          /\ sorted_input' = TRUE
          /\ directed_edge_list' = del
          /\ EnterBuildEdges(
                parse_sorted_edges(rows, dir, del),
                nodes_number, ign, hw, has_edge_types,
                FALSE, TRUE, dir,
                dir,
                FALSE)
    /\ UNCHANGED <<rows, nodes_number, result>>

\* one iteration of `for value in edges_iter` in build_edges
BuildEdgesRow ==
    /\ pc = "build"
    /\ idx <= Len(stream)
    /\ LET row == stream[idx]
           src == row.src
           dst == row.dst
           edge_type == row.edge_type
           weight == row.weight
           different_src == last_src # src \/ first
           different_dst == last_dst # dst \/ first
           selfloop == src = dst
           wo == WeightOutcome(weight)
           symmetric_check == ~directed /\ ~edge_list_is_correct
           st0 == [nwe |-> not_singleton_nodes.v, num |-> not_singleton_node_number,
                   bitmap |-> singleton_nodes_with_selfloops.v, brk |-> FALSE]
           st2 == VisitEndpoint(
                     VisitEndpoint(st0, src, selfloop, singleton_nodes_with_selfloops.some),
                     dst, selfloop, singleton_nodes_with_selfloops.some)
           visit == (different_src \/ different_dst) /\ not_singleton_nodes.some
       IN IF IsDuplicateRow(row)
          THEN IF ignore_duplicated_edges
               THEN /\ idx' = idx + 1
                    /\ UNCHANGED <<pc, rows, nodes_number, flagVars, stream, frameVars, result>>
               ELSE Fail("Duplicate")
          ELSE IF wo = "BadWeight"
          THEN Fail("BadWeight")
          ELSE IF symmetric_check /\ src > dst /\ ForwardEdgeId(src, dst, edge_type) = None
          THEN Fail("Inconsistent")
          ELSE
            /\ edge_type_ids' = (IF edge_type_ids.some
                                 THEN Some(Append(edge_type_ids.v, edge_type))
                                 ELSE edge_type_ids)
            /\ weights' = (IF wo = "push" THEN Some(Append(weights.v, weight)) ELSE weights)
            /\ backward_undirected_edges_counter' =
                  (IF symmetric_check /\ src > dst
                   THEN backward_undirected_edges_counter + 1
                   ELSE backward_undirected_edges_counter)
            /\ forward_undirected_edges_counter' =
                  (IF symmetric_check /\ src < dst
                   THEN forward_undirected_edges_counter + 1
                   ELSE forward_undirected_edges_counter)
            /\ last_edge_type' = edge_type
            /\ edges' = Append(edges, encode_edge(src, dst, node_bits))
            /\ selfloop_number' = (IF selfloop THEN selfloop_number + 1 ELSE selfloop_number)
            /\ not_singleton_nodes' =
                  (IF visit THEN Some(st2.nwe) ELSE not_singleton_nodes)
            /\ not_singleton_node_number' =
                  (IF visit THEN st2.num ELSE not_singleton_node_number)
            /\ singleton_nodes_with_selfloops' =
                  (IF visit /\ singleton_nodes_with_selfloops.some
                   THEN Some(st2.bitmap) ELSE singleton_nodes_with_selfloops)
            /\ unique_edges_number' =
                  (IF different_src \/ different_dst
                   THEN unique_edges_number + 1 ELSE unique_edges_number)
            /\ unique_selfloop_number' =
                  (IF (different_src \/ different_dst) /\ selfloop
                   THEN unique_selfloop_number + 1 ELSE unique_selfloop_number)
            /\ unique_sources' =
                  (IF (different_src \/ different_dst) /\ different_src /\ unique_sources.some
                   THEN Some(Append(unique_sources.v, src)) ELSE unique_sources)
            /\ last_src' = src
            /\ last_dst' = dst
            /\ first' = FALSE
            /\ idx' = idx + 1
            /\ UNCHANGED <<pc, rows, nodes_number, flagVars, stream, node_bits,
                           singleton_nodes_with_selfloops_number, result>>

\* build_edges after its loop, and the Graph::new that follows an Ok
BuildEdgesFinish ==
    /\ pc = "build"
    /\ idx > Len(stream)
    /\ LET swsn == IF singleton_nodes_with_selfloops.some
                   THEN Cardinality(singleton_nodes_with_selfloops.v) ELSE 0
           all_seen == nodes_number = not_singleton_node_number + swsn
           us1 == IF all_seen THEN NoVec ELSE unique_sources
           us2 == IF might_have_singletons /\ ~us1.some /\ ~all_seen
                  THEN (IF not_singleton_nodes.some
                        THEN Some(NatSetToSeq(not_singleton_nodes.v))
                        ELSE NoVec)
                  ELSE us1
       IN IF forward_undirected_edges_counter # backward_undirected_edges_counter
          THEN Fail("Inconsistent")
          ELSE IF weights.some /\ Len(edges) # Len(weights.v)
          THEN Fail("Panic")
          ELSE IF edge_type_ids.some /\ Len(edges) # Len(edge_type_ids.v)
          THEN Fail("Panic")
          ELSE IF not_singleton_node_number > nodes_number
          THEN Fail("Panic")
          ELSE IF ~directed /\ us2.some /\ not_singleton_node_number > Len(us2.v)
          THEN Fail("Panic")
          ELSE
            /\ weights' = (IF weights.some /\ weights.v = <<>> THEN NoVec ELSE weights)
            /\ edge_type_ids' = (IF edge_type_ids.some /\ edge_type_ids.v = <<>>
                                 THEN NoVec ELSE edge_type_ids)
            /\ singleton_nodes_with_selfloops_number' = swsn
            /\ unique_sources' = us2
            /\ result' = "Ok"
            /\ pc' = "done"
            /\ UNCHANGED <<rows, nodes_number, flagVars, stream, idx, node_bits, edges,
                           not_singleton_nodes, singleton_nodes_with_selfloops,
                           last_src, last_dst, last_edge_type, first,
                           unique_edges_number, unique_selfloop_number, selfloop_number,
                           forward_undirected_edges_counter,
                           backward_undirected_edges_counter,
                           not_singleton_node_number>>

NextBuild ==
    \/ ReadEdgeRow /\ UNCHANGED <<holdoutVars, negativesVars, namesVars, repeatVars, extraVars>>
    \/ from_string_unsorted /\ UNCHANGED <<holdoutVars, negativesVars, namesVars, repeatVars, extraVars>>
    \/ from_string_sorted /\ UNCHANGED <<holdoutVars, negativesVars, namesVars, repeatVars, extraVars>>
    \/ BuildEdgesRow /\ UNCHANGED <<holdoutVars, negativesVars, namesVars, repeatVars, extraVars>>
    \/ BuildEdgesFinish /\ UNCHANGED <<holdoutVars, negativesVars, namesVars, repeatVars, extraVars>>

vars == <<buildVars, holdoutVars, negativesVars, namesVars, repeatVars, extraVars>>

\* no holdout was asked for yet
HoldoutIdle ==
    /\ connected = FALSE /\ train_size = 0 /\ include_all_edge_types = FALSE
    /\ edge_types_filter = NoSet /\ min_number_overlaps = None
    /\ tree = {} /\ edge_indices = {} /\ valid_edges_number = 0
    /\ valid_edges_bitmap = {} /\ train = <<>> /\ valid = <<>>

\* no sampling was asked for yet
NegativesIdle ==
    /\ negatives_number = 0 /\ seed_nodes = NoSet
    /\ seed_graph = [some |-> FALSE, nodes |-> {}, edges |-> <<>>]
    /\ negative_edges_bitmap = {} /\ negatives = <<>>

\* an empty Vocabulary, in numeric mode or not
EmptyVocabulary(numeric) == [numeric |-> numeric, map |-> {}]

\* no constructor was given names yet
NamesIdle ==
    /\ has_nodes_list = FALSE /\ numeric_node_ids = FALSE
    /\ numeric_edge_node_ids = FALSE /\ ignore_duplicated_nodes = FALSE
    /\ nodes = EmptyVocabulary(FALSE)
    /\ node_rows_read = 0 /\ empty_nodes_mapping = TRUE

\* no holdout was called before this one
NoCall == [kind |-> "none"]

\* the shuffle of a call that is not repeated is not kept
NotKept == <<None>>

\* a holdout that is called once
RepeatIdle == random_state = None /\ shuffled = NotKept /\ earlier = NoCall

NoAnswer == [op |-> "none"]

\* no getter and no walk was called yet
ExtraIdle ==
    /\ answer = NoAnswer
    /\ length = 0 /\ iterations = 0 /\ start_node = 0 /\ end_node = 0
    /\ source = 0 /\ iteration = 0 /\ walk = <<>> /\ emitted = <<>>

\* Option<String>::None, and the return value of a caller that has not returned
NoReport == <<>>

\* textual_report was not called yet
ReportIdle ==
    /\ cached_report = NoReport /\ readers = {} /\ writer = None
    /\ caller_pc = <<>> /\ returned = <<>>

\* random_subgraph was not called yet
SubgraphIdle ==
    /\ subgraph_nodes_number = 0 /\ shuffled_nodes = {} /\ unique_nodes = {}
    /\ subgraph = <<>>

LaterIdle == ReportIdle /\ SubgraphIdle

Idle == HoldoutIdle /\ NegativesIdle /\ NamesIdle /\ RepeatIdle /\ ExtraIdle /\ LaterIdle

Init == InitBuild /\ Idle /\ overflow_checks = FALSE

Spec == Init /\ [][NextBuild]_vars

\* ------------------------------------------------------------------ the built graph
\* decode(key) = (key >> node_bits, key & node_bit_mask)
decode_edge(key) == <<key \div Pow2(node_bits), key % Pow2(node_bits)>>

\* Graph::get_edge_quadruple: the edge stored at position i
get_edge_quadruple(i) ==
    Quadruple(decode_edge(edges[i])[1], decode_edge(edges[i])[2],
              IF edge_type_ids.some THEN edge_type_ids.v[i] ELSE None,
              IF weights.some THEN weights.v[i] ELSE None)

Built == pc = "done" /\ result = "Ok"

EdgeIds == 1..Len(edges)

\* ------------------------------------------------------------------ claims
\* C1: in every graph successfully built as undirected, every stored edge
\* (u,v) with u # v has a stored edge (v,u) with the same optional edge type
\* and, when the graph is weighted, the same weight.
C1_UndirectedSymmetric ==
    (Built /\ ~directed) =>
        \A i \in EdgeIds :
            LET e == get_edge_quadruple(i)
            IN e.src # e.dst =>
                  \E j \in EdgeIds : get_edge_quadruple(j) = Mirror(e)

C3_RowStep ==
    (pc = "build" /\ idx <= Len(stream) /\ ~first) =>
        LET row == stream[idx]
            same_endpoints == row.src = last_src /\ row.dst = last_dst
        IN /\ (same_endpoints /\ row.edge_type = last_edge_type) =>
                 IF ignore_duplicated_edges
                 THEN /\ result' = "none" /\ pc' = "build"
                      /\ edges' = edges /\ weights' = weights
                      /\ edge_type_ids' = edge_type_ids
                 ELSE result' = "Duplicate"
           /\ (same_endpoints /\ row.edge_type # last_edge_type) =>
                 /\ result' # "Duplicate"
                 /\ result' = "none" =>
                       /\ Len(edges') = Len(edges) + 1
                       /\ edges'[Len(edges')] = edges[Len(edges)]

HasStoredTriple(s, d, t) ==
    \E i \in EdgeIds :
        LET e == get_edge_quadruple(i)
        IN e.src = s /\ e.dst = d /\ e.edge_type = t

C4_RowStep ==
    (pc = "build" /\ idx <= Len(stream) /\ ~directed /\ directed_edge_list) =>
        LET row == stream[idx]
            repeated == ~first /\ Triple(row) = <<last_src, last_dst, last_edge_type>>
            weight_agrees == (row.weight # None) <=> has_edge_weights
        IN (~repeated /\ weight_agrees /\ row.src > row.dst
              /\ ~HasStoredTriple(row.dst, row.src, row.edge_type))
           => result' = "Inconsistent" /\ pc' = "done"

C9_WeightContract ==
    (pc = "done" /\ \E i \in 1..Len(rows) : (rows[i].weight = None) <=> has_edge_weights)
        => result # "Ok"

\* C10: an undirected graph built by from_string_unsorted (edge list not
\* directed, duplicates ignored, no types, no weights) from rows that repeat
\* one logical edge in both orientations has 2 nodes, exactly the stored
\* edges (A,B) and (B,A), no selfloop and unique_edges_number = 1.
S1Rows(s) ==
    /\ IsPlain(s)
    /\ \A i \in 1..Len(s) : {s[i].src, s[i].dst} = {0, 1}
    /\ \E i, j \in 1..Len(s) : s[i].src = 0 /\ s[j].src = 1

S1Call ==
    /\ pc = "done" /\ ~sorted_input
    /\ ~directed /\ ~directed_edge_list /\ ignore_duplicated_edges
    /\ ~has_edge_types /\ ~has_edge_weights
    /\ S1Rows(rows)

C10_S1LogicalEdgeOnce ==
    S1Call =>
        /\ result = "Ok"
        /\ nodes_number = 2
        /\ edges = <<encode_edge(0, 1, node_bits), encode_edge(1, 0, node_bits)>>
        /\ selfloop_number = 0
        /\ unique_edges_number = 1

\* C10 as amended: the same, with unique_edges_number = 2 (each stored
\* direction of the logical edge is counted).
C10_S1BothDirectionsCounted ==
    S1Call =>
        /\ result = "Ok"
        /\ nodes_number = 2
        /\ edges = <<encode_edge(0, 1, node_bits), encode_edge(1, 0, node_bits)>>
        /\ selfloop_number = 0
        /\ unique_edges_number = 2

C10_Witness ==
    /\ S1Call
    /\ rows = <<Quadruple(0, 1, None, None), Quadruple(1, 0, None, None),
                Quadruple(0, 1, None, None)>>

\* ------------------------------------------------------------------ a built graph
\* train_size in twentieths: -1.0, 0.0, 0.5, 0.6, 0.75, 1.0, 2.0
TrainSizes == {-20, 0, 10, 12, 15, 20, 40}

\* (total as f64 * train_size) as EdgeT: the cast truncates, and saturates at 0
ScaleBy(total, ts) == IF ts < 0 THEN 0 ELSE (total * ts) \div 20

\* the edge lists on n nodes a constructor call with a node list can be given:
\* one logical edge per row, typed by every row or by none
LogicalEdges(n, dir, typed) ==
    {Quadruple(s, d, t, None) : s \in 0..(n - 1), d \in 0..(n - 1),
                                t \in (IF typed THEN EdgeTypeIds ELSE {None})}

EdgeLists(n, dir, typed) ==
    {E \in SUBSET {e \in LogicalEdges(n, dir, typed) : dir \/ e.src <= e.dst} :
        Cardinality(E) <= MaxGraphEdges}

\* the graph build_edges returns for the edge list E: the sorted keys, the
\* type column, and the counters of its loop
IsGraphOf(n, dir, typed, E) ==
    LET all == IF dir THEN E ELSE E \cup {Mirror(e) : e \in E}
        s == SetToSortedSeq(all)
        weighted == \E e \in all : e.weight # None
    IN /\ pc = "graph" /\ result = "none"
       /\ rows = <<>> /\ stream = <<>> /\ idx = 1 /\ sorted_input = FALSE
       /\ nodes_number = n /\ node_bits = get_node_bits(n)
       /\ directed = dir /\ directed_edge_list = FALSE
       /\ ignore_duplicated_edges = FALSE /\ edge_list_is_correct = FALSE
       /\ has_edge_types = typed /\ has_edge_weights = weighted
       /\ might_have_singletons = TRUE
       /\ might_have_singletons_with_selfloops = TRUE
       /\ might_have_trap_nodes = dir
       /\ edges = [i \in 1..Len(s) |-> encode_edge(s[i].src, s[i].dst, get_node_bits(n))]
       /\ edge_type_ids = (IF typed /\ all # {}
                           THEN Some([i \in 1..Len(s) |-> s[i].edge_type]) ELSE NoVec)
       /\ weights = (IF weighted THEN Some([i \in 1..Len(s) |-> s[i].weight]) ELSE NoVec)
       /\ unique_sources = NoVec
       /\ not_singleton_nodes = NoSet /\ singleton_nodes_with_selfloops = NoSet
       /\ last_src = 0 /\ last_dst = 0 /\ last_edge_type = None /\ first = (all = {})
       /\ unique_edges_number = Cardinality({<<e.src, e.dst>> : e \in all})
       /\ unique_selfloop_number = Cardinality({e.src : e \in {x \in all : x.src = x.dst}})
       /\ selfloop_number = Cardinality({e \in all : e.src = e.dst})
       /\ forward_undirected_edges_counter = 0
       /\ backward_undirected_edges_counter = 0
       /\ not_singleton_node_number =
              Cardinality({v \in 0..(n - 1) :
                              \E e \in all : e.src # e.dst /\ v \in {e.src, e.dst}})
       /\ singleton_nodes_with_selfloops_number =
              Cardinality({v \in 0..(n - 1) :
                              /\ \E e \in all : e.src = v /\ e.dst = v
                              /\ \A e \in all : v \in {e.src, e.dst} => e.src = e.dst})

get_edges_number == Len(edges)

\* Graph::get_edge_triple
get_edge_triple(edge_id) == Triple(get_edge_quadruple(edge_id))

\* the ids of the edges from src to dst, a contiguous range of the sorted keys
get_unchecked_edge_ids_range(src, dst) ==
    {i \in EdgeIds : edges[i] = encode_edge(src, dst, node_bits)}

\* the id of the edge from src to dst that has the given type
get_unchecked_edge_id(src, dst, edge_type) ==
    IF edge_type_ids.some
    THEN CHOOSE i \in get_unchecked_edge_ids_range(src, dst) :
            edge_type_ids.v[i] = edge_type
    ELSE CHOOSE i \in get_unchecked_edge_ids_range(src, dst) : TRUE

get_unchecked_edge_types_number_from_tuple(src, dst) ==
    Cardinality(get_unchecked_edge_ids_range(src, dst))

is_multigraph == get_edges_number # unique_edges_number

has_selfloops == selfloop_number > 0

has_edge(src, dst) == get_unchecked_edge_ids_range(src, dst) # {}

\* with include_all_edge_types every edge between the two nodes, else the one
compute_edge_ids_vector(edge_id, src, dst, all_types) ==
    IF all_types THEN get_unchecked_edge_ids_range(src, dst) ELSE {edge_id}

\* ------------------------------------------------------------------ holdouts
Nodes == 0..(nodes_number - 1)

\* the nodes joined to those of S by the node pairs of P
RECURSIVE Component(_, _)
Component(S, P) ==
    LET T == S \cup {v \in Nodes : \E u \in S : {u, v} \in P}
    IN IF T = S THEN S ELSE Component(T, P)

get_components_number(P) == Cardinality({Component({v}, P) : v \in Nodes})

\* the pairs of distinct nodes joined by the edges with the given ids
ConnectedPairs(ids) ==
    {{decode_edge(edges[i])[1], decode_edge(edges[i])[2]} :
        i \in {j \in ids : decode_edge(edges[j])[1] # decode_edge(edges[j])[2]}}

\* Graph::spanning_tree: the ids of the edges of a spanning forest, one edge
\* per joined pair (the direction src < dst in an undirected graph), with
\* every parallel edge of a chosen one when include_all_edge_types is set
SpanningTrees(all_types) ==
    LET P == ConnectedPairs(EdgeIds)
        usable == {i \in EdgeIds :
                      LET e == get_edge_quadruple(i)
                      IN e.src # e.dst /\ (directed \/ e.src < e.dst)}
        picks == {T \in SUBSET usable :
                     /\ \A i, j \in T : ConnectedPairs({i}) = ConnectedPairs({j}) => i = j
                     /\ Cardinality(T) + get_components_number(P) = nodes_number
                     /\ get_components_number(ConnectedPairs(T)) = get_components_number(P)}
    IN {UNION {compute_edge_ids_vector(i, get_edge_quadruple(i).src,
                                       get_edge_quadruple(i).dst, all_types) : i \in T} :
           T \in picks}

HoldoutFail(kind) ==
    /\ result' = kind
    /\ pc' = "holdout_done"

\* the stored edges one edge of the tree stands for, the two cases exchanged
edge_factor_Swapped == IF directed THEN 2 ELSE 1

\* the stored edges one edge of the tree stands for

edge_factor == IF directed THEN 1 ELSE 2

\* get_holdouts_edges_number without its checks
get_holdouts_edges_number_Unchecked(ts, all_types) ==
    LET total_edges_number == IF all_types THEN unique_edges_number ELSE get_edges_number
    IN [err |-> "Ok", train |-> ScaleBy(total_edges_number, ts),
        valid |-> total_edges_number - ScaleBy(total_edges_number, ts)]

\* get_holdouts_edges_number: the error kind, or the pair of edge numbers
get_holdouts_edges_number(ts, all_types) ==
    LET total_edges_number == IF all_types THEN unique_edges_number ELSE get_edges_number
        train_edges_number == ScaleBy(total_edges_number, ts)
    IN IF ts <= 0 \/ ts >= 20
       THEN [err |-> "InvalidInput", train |-> 0, valid |-> 0]
       ELSE IF (directed /\ get_edges_number = 1) \/ (~directed /\ get_edges_number = 2)
       THEN [err |-> "InvalidInput", train |-> 0, valid |-> 0]
       ELSE IF train_edges_number = 0 \/ train_edges_number >= total_edges_number
       THEN [err |-> "InvalidInput", train |-> 0, valid |-> 0]
       ELSE IF total_edges_number - train_edges_number = 0
       THEN [err |-> "InvalidInput", train |-> 0, valid |-> 0]
       ELSE [err |-> "Ok", train |-> train_edges_number,
             valid |-> total_edges_number - train_edges_number]

\* Graph::holdout up to its loop
EnterHoldout(conn, ts, all_types, etis, mno, t) ==
    LET numbers == get_holdouts_edges_number(ts, all_types)
    IN /\ connected' = conn /\ train_size' = ts /\ include_all_edge_types' = all_types
       /\ edge_types_filter' = etis /\ min_number_overlaps' = mno /\ tree' = t
       /\ IF numbers.err # "Ok"
          THEN /\ HoldoutFail(numbers.err)
               /\ UNCHANGED <<edge_indices, valid_edges_number, valid_edges_bitmap,
                              train, valid>>
          ELSE /\ valid_edges_number' = numbers.valid
               /\ edge_indices' = EdgeIds
               /\ valid_edges_bitmap' = {}
               /\ pc' = "holdout"
               /\ UNCHANGED <<result, train, valid>>

\* the edge_types argument: none, or names of the graph's edge type vocabulary
EdgeTypeFilters == {NoSet} \cup (IF edge_type_ids.some THEN {Some({0})} ELSE {})

holdoutFrame == <<rows, nodes_number, flagVars, stream, idx, frameVars, negativesVars,
                  namesVars, extraVars>>

\* the random_state argument; only whether two calls are given the same one
\* matters, and the first call is given that of test_holdout_determinism
RandomStates == IF earlier = NoCall THEN {35} ELSE {35, 36}

\* the call is the first one, or repeats the arguments of the earlier call
\* but for the random_state
SameCall(conn, ts, all_types, etis, mno) ==
    earlier # NoCall =>
        /\ earlier.connected = conn /\ earlier.train_size = ts
        /\ earlier.include_all_edge_types = all_types
        /\ earlier.edge_types_filter = etis
        /\ earlier.min_number_overlaps = mno

\* the generators of this call were seeded as those of the earlier call
Reseeded(rs) == earlier # NoCall /\ earlier.random_state = rs

\* spanning_tree(random_state, ...): the tree of the earlier call under the
\* same random_state, else any spanning forest
SeededTrees(rs, all_types) ==
    IF Reseeded(rs) THEN {earlier.tree} ELSE SpanningTrees(all_types)

\* Graph::connected_holdout up to the loop of Graph::holdout
connected_holdout ==
    /\ pc = "graph"
    /\ \E all_types \in BOOLEAN, rs \in RandomStates :
       \E t \in SeededTrees(rs, all_types), ts \in TrainSizes, etis \in EdgeTypeFilters :
          LET train_edges_number == ScaleBy(get_edges_number, ts)
          IN /\ SameCall(TRUE, ts, all_types, etis, None)
             /\ random_state' = rs
             /\ IF ts <= 0 \/ ts >= 20
                THEN /\ HoldoutFail("InvalidInput")
                     /\ connected' = TRUE /\ train_size' = ts
                     /\ include_all_edge_types' = all_types /\ edge_types_filter' = etis
                     /\ UNCHANGED <<min_number_overlaps, tree, edge_indices,
                                    valid_edges_number, valid_edges_bitmap, train, valid>>
                ELSE IF Cardinality(t) * edge_factor > train_edges_number
                THEN /\ HoldoutFail("InvalidInput")
                     /\ connected' = TRUE /\ train_size' = ts
                     /\ include_all_edge_types' = all_types
                     /\ edge_types_filter' = etis /\ tree' = t
                     /\ UNCHANGED <<min_number_overlaps, edge_indices,
                                    valid_edges_number, valid_edges_bitmap, train, valid>>
                ELSE EnterHoldout(TRUE, ts, all_types, etis, None, t)
    /\ UNCHANGED <<shuffled, earlier>>
    /\ UNCHANGED holdoutFrame

\* Graph::random_holdout up to the loop of Graph::holdout
random_holdout ==
    /\ pc = "graph"
    /\ \E ts \in TrainSizes, all_types \in BOOLEAN, etis \in EdgeTypeFilters,
          mno \in {None, 2}, rs \in RandomStates :
          /\ SameCall(FALSE, ts, all_types, etis, mno)
          /\ random_state' = rs
          /\ IF mno # None /\ ~is_multigraph
             THEN /\ HoldoutFail("InvalidInput")
                  /\ connected' = FALSE /\ train_size' = ts
                  /\ include_all_edge_types' = all_types /\ edge_types_filter' = etis
                  /\ min_number_overlaps' = mno
                  /\ UNCHANGED <<tree, edge_indices, valid_edges_number,
                                 valid_edges_bitmap, train, valid>>
             ELSE EnterHoldout(FALSE, ts, all_types, etis, mno, {})
    /\ UNCHANGED <<shuffled, earlier>>
    /\ UNCHANGED holdoutFrame

\* the closure of connected_holdout without its look at the tree
connected_condition_NoTree(edge_id, edge_type) ==
    edge_types_filter.some => edge_type \in edge_types_filter.v

\* the closure connected_holdout hands to holdout
connected_condition(edge_id, edge_type) ==
    /\ edge_id \notin tree
    /\ edge_types_filter.some => edge_type \in edge_types_filter.v

\* the closure random_holdout hands to holdout
random_condition(src, dst, edge_type) ==
    /\ edge_types_filter.some => edge_type \in edge_types_filter.v
    /\ min_number_overlaps # None =>
          get_unchecked_edge_types_number_from_tuple(src, dst) >= min_number_overlaps

user_condition(edge_id, src, dst, edge_type) ==
    IF connected THEN connected_condition(edge_id, edge_type)
    ELSE random_condition(src, dst, edge_type)

\* the ids one iteration of the loop adds to the validation set, without the
\* backward edge ids
PickedEdgeIds_ForwardOnly(edge_id, src, dst, edge_type) ==
    compute_edge_ids_vector(edge_id, src, dst, include_all_edge_types)

\* the ids one iteration of the loop adds to the validation set
PickedEdgeIds(edge_id, src, dst, edge_type) ==
    compute_edge_ids_vector(edge_id, src, dst, include_all_edge_types)
    \cup (IF ~directed
          THEN compute_edge_ids_vector(get_unchecked_edge_id(dst, src, edge_type),
                                       dst, src, include_all_edge_types)
          ELSE {})

\* the edge ids edge_indices.shuffle(&mut rng) can hold next, with the rng
\* seeded anew at each call
ShuffleDraws_Unseeded == edge_indices

\* the edge ids edge_indices.shuffle(&mut rng) can hold next: the rng is
\* seeded with random_state, so under the random_state of the earlier call
\* the shuffle is the one of that call
ShuffleDraws ==
    LET k == get_edges_number - Cardinality(edge_indices)
    IN IF Reseeded(random_state) /\ k < Len(earlier.shuffled)
       THEN {earlier.shuffled[k + 1]}
       ELSE edge_indices

\* `valid_edges_bitmap.len() >= valid_edges_number`, never true
TargetReached_Never(bitmap) == FALSE

\* `valid_edges_bitmap.len() >= valid_edges_number`
TargetReached(bitmap) == Cardinality(bitmap) >= valid_edges_number

\* one iteration of the loop of Graph::holdout, on the next shuffled edge id
HoldoutEdge ==
    /\ pc = "holdout"
    /\ \E edge_id \in ShuffleDraws :
          LET e == get_edge_quadruple(edge_id)
              skipped == ~directed /\ e.src > e.dst
              bitmap == IF ~skipped /\ user_condition(edge_id, e.src, e.dst, e.edge_type)
                        THEN valid_edges_bitmap
                             \cup PickedEdgeIds(edge_id, e.src, e.dst, e.edge_type)
                        ELSE valid_edges_bitmap
              stop == ~skipped /\ TargetReached(bitmap)
          IN /\ valid_edges_bitmap' = bitmap
             /\ edge_indices' = edge_indices \ {edge_id}
             /\ shuffled' = (IF shuffled = NotKept THEN NotKept
                             ELSE Append(shuffled, edge_id))
             /\ pc' = (IF stop \/ edge_indices' = {} THEN "holdout_end" ELSE "holdout")
    /\ UNCHANGED <<connected, train_size, include_all_edge_types, edge_types_filter,
                   min_number_overlaps, tree, valid_edges_number, train, valid, result,
                   random_state, earlier>>
    /\ UNCHANGED holdoutFrame

\* the edge list build_graph is given for the edges with the given ids
Subgraph(ids) == [i \in 1..Cardinality(ids) |-> get_edge_quadruple(NatSetToSeq(ids)[i])]

\* the ids of the edges kept for the training graph
TrainEdgeIds_Unfiltered == EdgeIds

TrainEdgeIds == EdgeIds \ valid_edges_bitmap

\* Graph::holdout after its loop
HoldoutBuild ==
    /\ pc = "holdout_end"
    /\ IF Cardinality(valid_edges_bitmap) < valid_edges_number
       THEN /\ HoldoutFail("Inconsistent")
            /\ UNCHANGED <<train, valid>>
       ELSE /\ train' = Subgraph(TrainEdgeIds)
            /\ valid' = Subgraph(valid_edges_bitmap)
            /\ result' = "Ok"
            /\ pc' = "holdout_done"
    /\ UNCHANGED <<connected, train_size, include_all_edge_types, edge_types_filter,
                   min_number_overlaps, tree, edge_indices, valid_edges_number,
                   valid_edges_bitmap, repeatVars>>
    /\ UNCHANGED holdoutFrame

\* every graph on at most MaxGraphNodes nodes with at most MaxGraphEdges edges
InitGraph ==
    \E n \in 0..MaxGraphNodes, dir \in BOOLEAN, typed \in BOOLEAN :
        \E E \in EdgeLists(n, dir, typed) : IsGraphOf(n, dir, typed, E)

InitHoldout ==
    /\ InitGraph
    /\ Idle /\ overflow_checks = FALSE

NextHoldout ==
    \/ connected_holdout
    \/ random_holdout
    \/ HoldoutEdge
    \/ HoldoutBuild

SpecHoldout == InitHoldout /\ [][NextHoldout]_vars

\* ------------------------------------------------------------------ holdout claims
\* the edge list of the parent graph
ParentEdges == [i \in EdgeIds |-> get_edge_quadruple(i)]

\* Graph::check_edge_overlap of the graph with edge list g
check_edge_overlap(g, src, dst, et) ==
    \E i \in 1..Len(g) :
        /\ g[i].src = src /\ g[i].dst = dst
        /\ g[i].edge_type # None =>
              \E j \in 1..Len(g) : g[j].src = src /\ g[j].dst = dst /\ g[j].edge_type = et

\* self.overlaps(graph) and self.contains(graph), on graphs of one parent
overlaps(self, graph) ==
    \E i \in 1..Len(graph) :
        check_edge_overlap(self, graph[i].src, graph[i].dst, graph[i].edge_type)

contains(self, graph) ==
    \A i \in 1..Len(graph) :
        check_edge_overlap(self, graph[i].src, graph[i].dst, graph[i].edge_type)

\* how many edges of the edge list g have the triple of e
EdgeCount(g, e) == Cardinality({i \in 1..Len(g) : Triple(g[i]) = Triple(e)})

HoldoutBuilt == pc = "holdout_done" /\ result = "Ok"

\* the edge lists t and v split the edge list g
IsPartition(g, t, v) ==
    /\ contains(g, t)
    /\ contains(g, v)
    /\ ~overlaps(t, v)
    /\ ~overlaps(v, t)
    /\ \A i \in 1..Len(g) : EdgeCount(t, g[i]) + EdgeCount(v, g[i]) = EdgeCount(g, g[i])
    /\ Len(t) + Len(v) = Len(g)

\* C5: after a successful connected_holdout or random_holdout, every edge of
\* the training graph and of the validation graph is an edge of the parent,
\* no edge is in both, and the two together hold each edge of the parent as
\* many times as the parent does.
C5_HoldoutPartition == HoldoutBuilt => IsPartition(ParentEdges, train, valid)

\* a random holdout of an undirected multigraph moved both directions of an edge
C5_Witness ==
    /\ HoldoutBuilt /\ ~connected /\ ~directed /\ is_multigraph
    /\ train # <<>>
    /\ \E i, j \in 1..Len(valid) : valid[i].src < valid[i].dst /\ valid[j] = Mirror(valid[i])

\* the pairs of distinct nodes joined by the edges of the edge list g
ListPairs(g) == {{g[i].src, g[i].dst} : i \in {j \in 1..Len(g) : g[j].src # g[j].dst}}

\* C6: after a successful connected_holdout, every edge of the spanning
\* forest computed for the call is an edge of the training graph, and the
\* training graph has as many connected components as the parent.
C6_ForestStaysInTrain ==
    (HoldoutBuilt /\ connected) =>
        /\ \A id \in tree : \E i \in 1..Len(train) : train[i] = get_edge_quadruple(id)
        /\ get_components_number(ListPairs(train))
              = get_components_number(ListPairs(ParentEdges))

\* a connected holdout with a forest moved an edge to the validation graph
C6_Witness ==
    /\ HoldoutBuilt /\ connected /\ tree # {}
    /\ valid # <<>>
    /\ \E i \in 1..Len(valid) : valid[i].src # valid[i].dst

\* ------------------------------------------------------------------ sample_negatives
NoGraph == [some |-> FALSE, nodes |-> {}, edges |-> <<>>]

\* the seed graphs of a call: none, or a graph on some of the parent's nodes
\* with at most one edge
SeedGraphs ==
    {NoGraph}
    \cup {[some |-> TRUE, nodes |-> S, edges |-> <<>>] : S \in (SUBSET Nodes) \ {{}}}
    \cup {[some |-> TRUE, nodes |-> S, edges |-> <<Quadruple(e[1], e[2], None, None)>>] :
             S \in (SUBSET Nodes) \ {{}}, e \in Nodes \X Nodes}

\* nodes_number * (nodes_number - 1) in u64 without overflow checks: 0 - 1
\* wraps to 2^64 - 1 and 0 * (2^64 - 1) wraps to 0
WrappingCompleteEdges(n) == IF n = 0 THEN 0 ELSE n * (n - 1)

NegativesFail(kind) ==
    /\ result' = kind
    /\ pc' = "negatives_done"
    /\ UNCHANGED <<seed_nodes, negative_edges_bitmap, negatives>>

\* Graph::sample_negatives up to its loop
sample_negatives ==
    /\ pc = "graph"
    /\ \E k \in 0..MaxNegatives, sg \in SeedGraphs :
          /\ sg.some => \A i \in 1..Len(sg.edges) : {sg.edges[i].src, sg.edges[i].dst} \subseteq sg.nodes
          /\ negatives_number' = k
          /\ seed_graph' = sg
          /\ IF k = 0
             THEN NegativesFail("InvalidInput")
             ELSE IF sg.some /\ ~overlaps(ParentEdges, sg.edges)
             THEN NegativesFail("Inconsistent")
             ELSE IF nodes_number = 0 /\ overflow_checks
             THEN NegativesFail("Panic")
             ELSE LET complete_edges_number ==
                          WrappingCompleteEdges(nodes_number)
                              + (IF has_selfloops THEN nodes_number ELSE 0)
                      max_negative_edges == complete_edges_number - unique_edges_number
                  IN IF k > max_negative_edges
                     THEN NegativesFail("InvalidInput")
                     ELSE /\ seed_nodes' = (IF sg.some THEN Some(sg.nodes) ELSE NoSet)
                          /\ negative_edges_bitmap' = {}
                          /\ pc' = "sampling"
                          /\ UNCHANGED <<result, negatives>>
    /\ UNCHANGED <<rows, nodes_number, flagVars, stream, idx, frameVars, holdoutVars,
                   overflow_checks, namesVars, repeatVars, extraVars>>

\* the filter_map of the loop: the pairs a random key can be kept as
IsNegativeCandidate(src, dst) ==
    /\ seed_nodes.some => (src \in seed_nodes.v \/ dst \in seed_nodes.v)
    /\ has_selfloops \/ src # dst
    /\ ~has_edge(src, dst)

\* the flat_map of the loop: the keys stored for a kept pair
NegativeKeys(src, dst) ==
    IF ~directed /\ src # dst
    THEN {encode_edge(src, dst, node_bits), encode_edge(dst, src, node_bits)}
    ELSE {encode_edge(src, dst, node_bits)}

Min(a, b) == IF a < b THEN a ELSE b

\* one iteration of the loop: gen_random_vec gives edges_to_sample keys, each
\* reduced to a pair of nodes; the kept ones are added to the bitmap
SampleNegativesChunk ==
    /\ pc = "sampling"
    /\ Cardinality(negative_edges_bitmap) < negatives_number
    /\ LET missing == negatives_number - Cardinality(negative_edges_bitmap)
           chunk_size == IF 4096 > negatives_number \div 100
                         THEN 4096 ELSE negatives_number \div 100
           edges_to_sample == Min(chunk_size,
                                  IF directed THEN missing ELSE (missing + 1) \div 2)
       IN \E kept \in SUBSET {e \in Nodes \X Nodes : IsNegativeCandidate(e[1], e[2])} :
             /\ Cardinality(kept) <= edges_to_sample
             /\ negative_edges_bitmap' =
                    negative_edges_bitmap
                    \cup UNION {NegativeKeys(e[1], e[2]) : e \in kept}
    /\ UNCHANGED <<pc, result, rows, nodes_number, flagVars, stream, idx, frameVars,
                   holdoutVars, namesVars, repeatVars, extraVars, overflow_checks, negatives_number, seed_graph,
                   seed_nodes, negatives>>

\* sample_negatives after its loop: the graph of the keys of the bitmap
SampleNegativesBuild ==
    /\ pc = "sampling"
    /\ Cardinality(negative_edges_bitmap) >= negatives_number
    /\ negatives' = [i \in 1..Cardinality(negative_edges_bitmap) |->
                        LET key == NatSetToSeq(negative_edges_bitmap)[i]
                        IN Quadruple(decode_edge(key)[1], decode_edge(key)[2], None, None)]
    /\ result' = "Ok"
    /\ pc' = "negatives_done"
    /\ UNCHANGED <<rows, nodes_number, flagVars, stream, idx, frameVars,
                   holdoutVars, namesVars, repeatVars, extraVars, overflow_checks, negatives_number, seed_graph,
                   seed_nodes, negative_edges_bitmap>>

\* every graph without edge types on at most MaxGraphNodes nodes, built in
\* either build profile
InitNegatives ==
    /\ \E n \in 0..MaxGraphNodes, dir \in BOOLEAN :
          \E E \in EdgeLists(n, dir, FALSE) : IsGraphOf(n, dir, FALSE, E)
    /\ Idle
    /\ overflow_checks \in BOOLEAN

NextNegatives ==
    \/ sample_negatives
    \/ SampleNegativesChunk
    \/ SampleNegativesBuild

SpecNegatives == InitNegatives /\ [][NextNegatives]_vars

\* ------------------------------------------------------------------ sampling claims
NegativesBuilt == pc = "negatives_done" /\ result = "Ok"

\* C7: after a successful sample_negatives, no edge of the returned graph is
\* an edge of the parent, the returned graph has exactly negatives_number
\* edges, and with a seed graph every returned edge has an endpoint among the
\* seed graph's nodes.
C7_NegativesExactlyRequested ==
    NegativesBuilt =>
        /\ \A i \in 1..Len(negatives) : ~has_edge(negatives[i].src, negatives[i].dst)
        /\ Len(negatives) = negatives_number
        /\ seed_graph.some =>
              \A i \in 1..Len(negatives) :
                  negatives[i].src \in seed_graph.nodes \/ negatives[i].dst \in seed_graph.nodes

\* the number of edges of the complete graph on the parent's nodes, with
\* selfloops iff the parent has one
CompleteEdgesNumber ==
    nodes_number * (nodes_number - 1) + (IF has_selfloops THEN nodes_number ELSE 0)

\* C8: a call of sample_negatives without a seed graph, on a parent of any
\* number of nodes, fails with InvalidInput exactly when negatives_number is 0
\* or exceeds the complete graph's edges less the parent's unique edges.
C8_InvalidInputIffOutOfRange ==
    (pc \in {"sampling", "negatives_done"} /\ ~seed_graph.some) =>
        ((result = "InvalidInput")
            <=> (negatives_number = 0
                 \/ negatives_number > CompleteEdgesNumber - unique_edges_number))

\* the edges with the given ids hold (v, u, t) whenever they hold (u, v, t)
BothDirections(ids) ==
    \A i \in ids : \E j \in ids :
        Triple(get_edge_quadruple(j)) = Triple(Mirror(get_edge_quadruple(i)))

\* an edge list holds (v, u, t) whenever it holds (u, v, t)
BothDirectionsListed(list) ==
    \A i \in 1..Len(list) : \E j \in 1..Len(list) :
        Triple(list[j]) = Triple(Mirror(list[i]))

\* C25: for an undirected parent, holdout moves both directions of an edge
\* together: after every iteration of the picking loop, and in the returned
\* graphs, the validation edge set contains (u, v, t) if and only if it
\* contains (v, u, t), and the same holds for the training edge set.
C25_BothDirectionsTogether ==
    (~directed /\ pc \in {"holdout", "holdout_end", "holdout_done"}) =>
        /\ BothDirections(valid_edges_bitmap)
        /\ BothDirections(EdgeIds \ valid_edges_bitmap)
        /\ (pc = "holdout_done" /\ result = "Ok") =>
              BothDirectionsListed(valid) /\ BothDirectionsListed(train)

\* inside the loop, an edge between two nodes was moved and another was not
C25_Witness ==
    /\ ~directed /\ pc = "holdout"
    /\ \E i \in valid_edges_bitmap :
          get_edge_quadruple(i).src # get_edge_quadruple(i).dst
    /\ \E i \in EdgeIds \ valid_edges_bitmap :
          get_edge_quadruple(i).src # get_edge_quadruple(i).dst

\* the numbers in the message of the error of holdout; the rates are
\* <<numerator, denominator>>
actual_valid_edges_number == Cardinality(valid_edges_bitmap)

actual_valid_rate == <<actual_valid_edges_number, get_edges_number>>

actual_train_size == <<get_edges_number - actual_valid_edges_number, get_edges_number>>

\* the edge ids that can be moved to the validation set at all: those of the
\* edges that pass the condition, with the ids moved along with them
AchievableEdgeIds ==
    UNION {LET e == get_edge_quadruple(i)
           IN IF (directed \/ e.src <= e.dst) /\ user_condition(i, e.src, e.dst, e.edge_type)
              THEN PickedEdgeIds(i, e.src, e.dst, e.edge_type)
              ELSE {} : i \in EdgeIds}

\* C26: if, after scanning all shuffled edge ids, fewer edges than
\* valid_edges_number were moved to validation, holdout returns an
\* Inconsistent error that reports the achievable validation count and the
\* train/validation rates that go with it, and returns no graphs; if the
\* target is reached it stops scanning and returns both graphs.
C26_TargetOrInconsistent ==
    /\ pc = "holdout" => Cardinality(valid_edges_bitmap) < valid_edges_number
    /\ pc = "holdout_end" =>
          (Cardinality(valid_edges_bitmap) >= valid_edges_number
              \/ (edge_indices = {} /\ valid_edges_bitmap = AchievableEdgeIds))
    /\ (pc = "holdout_done" /\ result = "Inconsistent") =>
          /\ edge_indices = {}
          /\ actual_valid_edges_number < valid_edges_number
          /\ actual_valid_edges_number = Cardinality(AchievableEdgeIds)
          /\ actual_valid_rate[1] + actual_train_size[1] = get_edges_number
          /\ train = <<>> /\ valid = <<>>
    /\ (pc = "holdout_done" /\ result = "Ok") =>
          /\ Cardinality(valid_edges_bitmap) >= valid_edges_number
          /\ Len(valid) = Cardinality(valid_edges_bitmap)
          /\ Len(train) = get_edges_number - Cardinality(valid_edges_bitmap)

\* every edge id was scanned, some edges were moved, and they are too few
C26_Witness ==
    /\ pc = "holdout_done" /\ result = "Inconsistent"
    /\ valid_edges_bitmap # {} /\ edge_indices = {}

\* the target was reached before every edge id was scanned
C26_WitnessStopped ==
    pc = "holdout_done" /\ result = "Ok" /\ edge_indices # {}

\* ------------------------------------------------------------------ build_edges called on its own
\* the rows build_edges can be handed for a graph on n nodes
StreamRows(n) ==
    {Quadruple(s, d, t, w) : s \in 0..(n - 1), d \in 0..(n - 1),
                             t \in {None, 0}, w \in {None, 1}}

\* the sorted streams of at most MaxRows rows: every caller of build_edges
\* sorts its rows or is given them sorted
SortedStreams(n) ==
    UNION {{s \in [1..k -> StreamRows(n)] : IsSortedStream(s)} : k \in 0..MaxRows}

\* a caller holds the node count of a node list and a sorted stream
InitEdges ==
    /\ InitBuild
    /\ Idle /\ overflow_checks = FALSE

\* the callers' state before build_edges: n nodes and the stream
PrepareStream ==
    /\ pc = "input"
    /\ rows = <<>>
    /\ \E n \in 0..MaxNodes :
          \E s \in SortedStreams(n) :
             /\ rows' = s
             /\ nodes_number' = n
    /\ pc' = "call"
    /\ UNCHANGED <<flagVars, stream, idx, frameVars, result>>

\* build_edges up to its loop; the three might_have flags are passed alike
build_edges ==
    /\ pc = "call"
    /\ \E dir \in BOOLEAN, ign \in BOOLEAN, hw \in BOOLEAN, elic \in BOOLEAN,
          might \in BOOLEAN :
          /\ sorted_input' = TRUE
          /\ directed_edge_list' = FALSE
          /\ EnterBuildEdges(rows, nodes_number, ign, hw, has_edge_types,
                             might, might, might, dir, elic)
    /\ UNCHANGED <<rows, nodes_number, result>>

NextEdges ==
    \/ PrepareStream /\ UNCHANGED <<holdoutVars, negativesVars, namesVars, repeatVars, extraVars>>
    \/ build_edges /\ UNCHANGED <<holdoutVars, negativesVars, namesVars, repeatVars, extraVars>>
    \/ BuildEdgesRow /\ UNCHANGED <<holdoutVars, negativesVars, namesVars, repeatVars, extraVars>>
    \/ BuildEdgesFinish /\ UNCHANGED <<holdoutVars, negativesVars, namesVars, repeatVars, extraVars>>

SpecEdges == InitEdges /\ [][NextEdges]_vars

\* the nodes that are the source of a stored edge
StoredSources == {decode_edge(edges[i])[1] : i \in EdgeIds}

\* the nodes no stored edge touches
SingletonNodes ==
    {v \in Nodes : \A i \in EdgeIds : v \notin {decode_edge(edges[i])[1], decode_edge(edges[i])[2]}}

\* the nodes of a directed graph that have an edge but no outgoing edge
TrapNodes == IF directed THEN (Nodes \ StoredSources) \ SingletonNodes ELSE {}

SeqRange(s) == {s[i] : i \in 1..Len(s)}

\* the nodes incident to a non-selfloop row of the stream
NonSelfloopNodes ==
    {u \in 0..(nodes_number - 1) :
        \E i \in 1..Len(stream) :
            stream[i].src # stream[i].dst /\ u \in {stream[i].src, stream[i].dst}}

\* the nodes with a selfloop row in the stream
SelfloopNodes ==
    {u \in 0..(nodes_number - 1) :
        \E i \in 1..Len(stream) : stream[i].src = u /\ stream[i].dst = u}

\* C24: for build_edges with might_have_singletons and
\* might_have_singletons_with_selfloops both true, on a sorted stream over N
\* nodes: on success singleton_nodes_with_selfloops_number is the number of
\* nodes with a selfloop and no non-selfloop incident edge, and
\* not_singleton_node_number is the number of nodes incident to a non-selfloop
\* edge; a node first seen through a selfloop that later occurs in a
\* non-selfloop edge has left the selfloop-singleton set and is counted once,
\* and both endpoints of every non-selfloop edge are in not_singleton_nodes.
C24_SingletonCounters ==
    (pc = "done" /\ result = "Ok" /\ might_have_singletons
        /\ might_have_singletons_with_selfloops) =>
        /\ singleton_nodes_with_selfloops_number
              = Cardinality(SelfloopNodes \ NonSelfloopNodes)
        /\ not_singleton_node_number = Cardinality(NonSelfloopNodes)
        /\ singleton_nodes_with_selfloops.v = SelfloopNodes \ NonSelfloopNodes
        /\ nodes_number > 0 => NonSelfloopNodes \subseteq not_singleton_nodes.v

\* a node whose first row is a selfloop and that has a non-selfloop row later
C24_Witness ==
    /\ pc = "done" /\ result = "Ok"
    /\ might_have_singletons /\ might_have_singletons_with_selfloops
    /\ \E i, j \in 1..Len(stream) :
          /\ i < j
          /\ stream[i].src = stream[i].dst
          /\ stream[j].src # stream[j].dst
          /\ stream[i].src \in {stream[j].src, stream[j].dst}
          /\ \A k \in 1..(i - 1) : stream[i].src \notin {stream[k].src, stream[k].dst}

\* C11: after build_edges succeeds with the three might_have flags true,
\* unique_sources is None exactly when the graph has no singleton node and,
\* if directed, no trap node; otherwise it holds exactly the nodes that are
\* the source of a stored edge.
C11_UniqueSourcesAliasing ==
    (Built /\ might_have_singletons /\ might_have_singletons_with_selfloops
           /\ might_have_trap_nodes) =>
        /\ ~unique_sources.some <=> (SingletonNodes = {} /\ TrapNodes = {})
        /\ unique_sources.some => SeqRange(unique_sources.v) = StoredSources

\* ------------------------------------------------------------------ node names
\* the node names of the input files: the numerals "0", "1", ...
Names == 0..(MaxNames - 1)

VocabularyHas(voc, name) == \E e \in voc.map : e[1] = name

VocabularyGet(voc, name) == (CHOOSE e \in voc.map : e[1] = name)[2]

\* Vocabulary::insert: the id of a known name, else the parsed value in
\* numeric mode and the next free id otherwise
VocabularyInsert(voc, name) ==
    IF VocabularyHas(voc, name)
    THEN [voc |-> voc, id |-> VocabularyGet(voc, name), present |-> TRUE]
    ELSE LET id == IF voc.numeric THEN name ELSE Cardinality(voc.map)
         IN [voc |-> [voc EXCEPT !.map = @ \cup {<<name, id>>}],
             id |-> id, present |-> FALSE]

\* Vocabulary::len
VocabularyLen(voc) ==
    IF voc.map = {} THEN 0
    ELSE IF voc.numeric
    THEN (CHOOSE m \in {e[2] : e \in voc.map} : \A e \in voc.map : e[2] <= m) + 1
    ELSE Cardinality(voc.map)

check_numeric_ids_compatibility_AnyList(hnl, nn, nen) ==
    IF nn /\ ~nen THEN "Inconsistent" ELSE "Ok"

check_numeric_ids_compatibility(hnl, nn, nen) ==
    IF hnl /\ nn /\ ~nen THEN "Inconsistent" ELSE "Ok"

NamesFail(kind) ==
    /\ result' = kind
    /\ pc' = "names_done"

namesFrame == <<flagVars, stream, idx, frameVars, holdoutVars, negativesVars,
                repeatVars, extraVars>>

\* Graph::from_string_unsorted and Graph::from_string_sorted up to the node
\* list: the compatibility check and the Vocabulary of parse_nodes
from_string ==
    /\ pc = "input"
    /\ rows = <<>>
    /\ \E hnl \in BOOLEAN, nn \in BOOLEAN, nen \in BOOLEAN, idn \in BOOLEAN,
          sorted \in BOOLEAN :
          /\ has_nodes_list' = hnl
          /\ numeric_node_ids' = nn
          /\ numeric_edge_node_ids' = nen
          /\ ignore_duplicated_nodes' = idn
          /\ sorted_input' = sorted
          /\ IF check_numeric_ids_compatibility(hnl, nn, nen) # "Ok"
             THEN /\ NamesFail(check_numeric_ids_compatibility(hnl, nn, nen))
                  /\ UNCHANGED nodes
             ELSE /\ nodes' = EmptyVocabulary(nn \/ (nen /\ ~hnl))
                  /\ pc' = (IF hnl THEN "nodes" ELSE "edge_names")
                  /\ UNCHANGED result
    /\ UNCHANGED <<rows, nodes_number, node_rows_read, empty_nodes_mapping>>
    /\ UNCHANGED <<directed, directed_edge_list, ignore_duplicated_edges, has_edge_types,
                   has_edge_weights, edge_list_is_correct, might_have_singletons,
                   might_have_singletons_with_selfloops, might_have_trap_nodes>>
    /\ UNCHANGED <<stream, idx, frameVars, holdoutVars, negativesVars, repeatVars,
                   extraVars>>

\* parse_node_ids on one more row of the node list (node_list_is_correct false)
ParseNodeRow ==
    /\ pc = "nodes"
    /\ node_rows_read < MaxNames
    /\ \E node_name \in Names :
          LET ins == VocabularyInsert(nodes, node_name)
          IN /\ nodes' = ins.voc
             /\ node_rows_read' = node_rows_read + 1
             /\ IF ins.present /\ ~ignore_duplicated_nodes
                THEN NamesFail("Duplicate")
                ELSE UNCHANGED <<pc, result>>
    /\ UNCHANGED <<rows, nodes_number, has_nodes_list, numeric_node_ids,
                   numeric_edge_node_ids, ignore_duplicated_nodes, empty_nodes_mapping>>
    /\ UNCHANGED namesFrame

\* the end of the node list; the constructors pass the Vocabulary on to
\* parse_edges_node_ids, which notes whether it is empty
EndNodeList ==
    /\ pc = "nodes"
    /\ pc' = "edge_names"
    /\ UNCHANGED <<rows, nodes_number, result, namesVars>>
    /\ UNCHANGED namesFrame

\* the test of parse_edges_node_ids on the two inserts of a row
UnknownNodeRow_SourceOnly(was_empty, src_present, dst_present) ==
    ~was_empty /\ ~src_present

UnknownNodeRow(was_empty, src_present, dst_present) ==
    ~was_empty /\ (~src_present \/ ~dst_present)

\* parse_edges_node_ids on one more row of the edge list (edge_list_is_correct false)
ParseEdgeNames ==
    /\ pc = "edge_names"
    /\ Len(rows) < MaxNameRows
    /\ \E src_name \in Names, dst_name \in Names :
          LET was_empty == IF rows = <<>> THEN nodes.map = {} ELSE empty_nodes_mapping
              s == VocabularyInsert(nodes, src_name)
              d == VocabularyInsert(s.voc, dst_name)
          IN /\ empty_nodes_mapping' = was_empty
             /\ nodes' = d.voc
             /\ IF UnknownNodeRow(was_empty, s.present, d.present)
                THEN /\ NamesFail("UnknownNode")
                     /\ UNCHANGED rows
                ELSE /\ rows' = Append(rows, Quadruple(s.id, d.id, None, None))
                     /\ UNCHANGED <<pc, result>>
    /\ UNCHANGED <<nodes_number, has_nodes_list, numeric_node_ids, numeric_edge_node_ids,
                   ignore_duplicated_nodes, node_rows_read>>
    /\ UNCHANGED namesFrame

\* the end of the edge list: every name has its id
EndEdgeNames ==
    /\ pc = "edge_names"
    /\ nodes_number' = VocabularyLen(nodes)
    /\ pc' = "resolved"
    /\ UNCHANGED <<rows, result, namesVars>>
    /\ UNCHANGED namesFrame

InitNames == Init

NextNames ==
    \/ from_string
    \/ ParseNodeRow
    \/ EndNodeList
    \/ ParseEdgeNames
    \/ EndEdgeNames

SpecNames == InitNames /\ [][NextNames]_vars

\* ------------------------------------------------------------------ name claims
\* C12: the constructors fail with Inconsistent, before any node or edge row
\* is read, when a node list is given with numeric_node_ids and without
\* numeric_edge_node_ids; for every other combination the check passes and
\* the constructor goes on to its lists.
C12_NumericIdsChecked ==
    [][pc = "input" =>
          LET bad == has_nodes_list' /\ numeric_node_ids' /\ ~numeric_edge_node_ids'
          IN /\ (result' = "Inconsistent") <=> bad
             /\ bad => /\ pc' = "names_done"
                       /\ node_rows_read' = 0 /\ rows' = <<>> /\ nodes'.map = {}
             /\ ~bad => pc' \in {"nodes", "edge_names"} /\ result' = "none"]_vars

\* the compatibility check rejected a numeric node list
C12_Witness ==
    /\ pc = "names_done" /\ result = "Inconsistent"
    /\ has_nodes_list /\ numeric_node_ids /\ ~numeric_edge_node_ids
    /\ node_rows_read = 0

\* the names of the node list, while the edge list is read
NodeListNames == IF node_rows_read = 0 THEN {} ELSE {e[1] : e \in nodes.map}

\* the ids of the rows, in the order the names were read
RECURSIVE FlatIds(_)
FlatIds(rs) ==
    IF rs = <<>> THEN <<>>
    ELSE FlatIds(SubSeq(rs, 1, Len(rs) - 1)) \o <<rs[Len(rs)].src, rs[Len(rs)].dst>>

\* every id is a known one or the count of the ids before it
FirstAppearanceOrder(ids) ==
    \A i \in 1..Len(ids) :
        \/ \E j \in 1..(i - 1) : ids[j] = ids[i]
        \/ ids[i] = Cardinality({ids[j] : j \in 1..(i - 1)})

\* a step of parse_edges_node_ids on a row
EdgeRowStep == pc = "edge_names" /\ (rows' # rows \/ result' # result)

\* C13: with edge_list_is_correct false, a row naming a node that is not in
\* the node list given fails with UnknownNode; without a node list the names
\* are inserted and get their ids in first-appearance order from 0.
C13_UnknownNodeOrAutoInsert ==
    [][EdgeRowStep =>
          /\ has_nodes_list =>
                ((\E e \in nodes'.map : e[1] \notin NodeListNames)
                    => result' = "UnknownNode" /\ rows' = rows)
          /\ ~has_nodes_list =>
                result' = "none" /\ FirstAppearanceOrder(FlatIds(rows'))]_vars

\* C13, with the test the code makes: a row naming a node outside a
\* non-empty vocabulary fails with UnknownNode; when the vocabulary is empty
\* as the edge list starts, the names are inserted, and get their ids in
\* first-appearance order from 0 unless the vocabulary parses numeric names.
C13_UnknownNodeIfVocabularyFilled ==
    [][EdgeRowStep =>
          LET was_empty == IF rows = <<>> THEN nodes.map = {} ELSE empty_nodes_mapping
          IN /\ (~was_empty /\ nodes'.map # nodes.map)
                    => result' = "UnknownNode" /\ rows' = rows
             /\ (~was_empty /\ nodes'.map = nodes.map)
                    => result' = "none" /\ Len(rows') = Len(rows) + 1
             /\ was_empty => result' = "none" /\ Len(rows') = Len(rows) + 1
             /\ (was_empty /\ ~nodes.numeric) => FirstAppearanceOrder(FlatIds(rows'))]_vars

\* a row named a node outside the node list after a row that did not
C13_Witness ==
    /\ pc = "names_done" /\ result = "UnknownNode"
    /\ has_nodes_list /\ node_rows_read > 0
    /\ Len(rows) = 1

\* ------------------------------------------------------------------ array claims
\* C14: whenever build_edges returns Ok, the weights and the edge type ids,
\* when present, have one entry per stored edge, entry i being the weight
\* and the type of a row of the stream that has the endpoints of edge i; and
\* build_edges never ends in a panic.
C14_ParallelArrays ==
    /\ pc = "done" => result # "Panic"
    /\ Built =>
          /\ weights.some => Len(weights.v) = Len(edges)
          /\ edge_type_ids.some => Len(edge_type_ids.v) = Len(edges)
          /\ \A i \in EdgeIds :
                \E j \in 1..Len(stream) :
                    /\ encode_edge(stream[j].src, stream[j].dst, node_bits) = edges[i]
                    /\ weights.some => stream[j].weight = weights.v[i]
                    /\ edge_type_ids.some => stream[j].edge_type = edge_type_ids.v[i]

\* a weighted, typed graph of one edge was built from a row and its repetition
C14_Witness ==
    /\ Built /\ weights.some /\ edge_type_ids.some
    /\ Len(edges) = 1 /\ Len(stream) = 2
    /\ ignore_duplicated_edges

\* ------------------------------------------------------------------ the path graph
PathEdges == {Quadruple(v, v + 1, None, None) : v \in 0..3}

\* the undirected path graph A-B-C-D-E
InitPath ==
    /\ IsGraphOf(5, FALSE, FALSE, PathEdges)
    /\ Idle /\ overflow_checks = FALSE

SpecPath == InitPath /\ [][NextHoldout]_vars

\* a connected holdout with train_size 0.6 was asked for
PathCall == pc # "graph" /\ connected /\ train_size = 12

\* C15: connected_holdout on the undirected path graph A-B-C-D-E with
\* train_size 0.6 succeeds, the training graph is connected and the
\* validation graph has round(E * 0.4) = 3 edges.
C15_PathHoldoutSucceeds ==
    (PathCall /\ pc = "holdout_done") =>
        /\ result = "Ok"
        /\ get_components_number(ListPairs(train)) = 1
        /\ Len(valid) = 3

\* C15, as the code answers: the spanning tree of the path graph stands for
\* all of its 8 stored edges, more than the 4 training edges of train_size
\* 0.6, so the call fails with InvalidInput and returns no graph.
C15_PathHoldoutRefused ==
    PathCall =>
        /\ pc = "holdout_done" /\ result = "InvalidInput"
        /\ Cardinality(tree) * edge_factor = get_edges_number
        /\ ScaleBy(get_edges_number, train_size) = 4
        /\ train = <<>> /\ valid = <<>>

\* the call on the path graph was refused
C15_Witness ==
    /\ PathCall /\ result = "InvalidInput"
    /\ nodes_number = 5 /\ get_edges_number = 8 /\ Cardinality(tree) = 4

\* C16: connected_holdout and random_holdout return an InvalidInput error
\* and no graph for every train_size that is not strictly between 0 and 1,
\* on directed and undirected graphs.
C16_TrainSizeOutOfRange ==
    (pc # "graph" /\ (train_size <= 0 \/ train_size >= 20)) =>
        /\ pc = "holdout_done" /\ result = "InvalidInput"
        /\ train = <<>> /\ valid = <<>>

\* a random holdout of a directed graph with edges was refused for train_size 2.0
C16_Witness ==
    /\ pc = "holdout_done" /\ result = "InvalidInput"
    /\ ~connected /\ directed /\ train_size = 40 /\ get_edges_number >= 2
    /\ min_number_overlaps = None

\* ------------------------------------------------------------------ a holdout called twice
\* the holdout has returned and is called again on the same graph, as
\* test_holdout_determinism does
Repeat ==
    /\ pc = "holdout_done" /\ earlier = NoCall /\ shuffled # NotKept
    /\ earlier' = [kind |-> "call", random_state |-> random_state,
                   connected |-> connected, train_size |-> train_size,
                   include_all_edge_types |-> include_all_edge_types,
                   edge_types_filter |-> edge_types_filter,
                   min_number_overlaps |-> min_number_overlaps,
                   tree |-> tree, shuffled |-> shuffled,
                   result |-> result, train |-> train, valid |-> valid]
    /\ pc' = "graph" /\ result' = "none"
    /\ connected' = FALSE /\ train_size' = 0 /\ include_all_edge_types' = FALSE
    /\ edge_types_filter' = NoSet /\ min_number_overlaps' = None
    /\ tree' = {} /\ edge_indices' = {} /\ valid_edges_number' = 0
    /\ valid_edges_bitmap' = {} /\ train' = <<>> /\ valid' = <<>>
    /\ random_state' = None /\ shuffled' = NotKept
    /\ UNCHANGED holdoutFrame

\* the parent graphs of the repeated holdouts: at most two logical edges on
\* two nodes
TwiceEdgeLists(dir, typed) ==
    {E \in SUBSET {e \in LogicalEdges(2, dir, typed) : dir \/ e.src <= e.dst} :
        Cardinality(E) \in 1..2}

\* a graph whose holdouts keep their shuffle for a second call
InitTwice ==
    /\ \E dir \in BOOLEAN, typed \in BOOLEAN :
          \E E \in TwiceEdgeLists(dir, typed) : IsGraphOf(2, dir, typed, E)
    /\ HoldoutIdle /\ NegativesIdle /\ NamesIdle /\ ExtraIdle /\ LaterIdle
    /\ overflow_checks = FALSE
    /\ random_state = None /\ shuffled = <<>> /\ earlier = NoCall

NextTwice ==
    \/ NextHoldout
    \/ Repeat

SpecTwice == InitTwice /\ [][NextTwice]_vars

\* the second call has returned and had the random_state of the first
ReturnedAgain ==
    /\ pc = "holdout_done" /\ earlier # NoCall
    /\ random_state = earlier.random_state

sources == [i \in EdgeIds |-> decode_edge(edges[i])[1]]

destinations == [i \in EdgeIds |-> decode_edge(edges[i])[2]]

\* Graph::outbounds: for every node, the number of stored edges whose source
\* is that node or a node before it
outbounds == [u \in 1..nodes_number |->
                 unchecked_rank(edges, encode_edge(u, 0, node_bits))]

\* Graph::get_min_max_edge with a minimum of 0 for every node
get_min_max_edge_FromZero(node) == <<0, outbounds[node + 1]>>

\* Graph::get_min_max_edge; outbounds[node] of the code is outbounds[node + 1] here
get_min_max_edge(node) ==
    <<IF node = 0 THEN 0 ELSE outbounds[node], outbounds[node + 1]>>

\* Graph::degree
degree(node) == get_min_max_edge(node)[2] - get_min_max_edge(node)[1]

\* Graph::not_trap_nodes: the nodes a walk can start from
not_trap_nodes == NatSetToSeq(StoredSources)

\* Graph::get_not_trap_nodes_number
get_not_trap_nodes_number == Len(not_trap_nodes)

\* Itertools::unique: the first occurrences, in their order
RECURSIVE Unique(_)
Unique(s) ==
    IF s = <<>> THEN <<>>
    ELSE LET front == Unique(SubSeq(s, 1, Len(s) - 1))
         IN IF s[Len(s)] \in SeqRange(front) THEN front
            ELSE Append(front, s[Len(s)])

\* Graph::get_dense_nodes_mapping: the pairs (node, dense node)
get_dense_nodes_mapping ==
    LET u == Unique(sources \o destinations)
    IN {<<u[i], i - 1>> : i \in 1..Len(u)}

\* a call of Graph::degree
CallDegree ==
    /\ pc = "graph"
    /\ \E node \in Nodes :
          answer' = [op |-> "degree", node |-> node,
                     min_max |-> get_min_max_edge(node), value |-> degree(node)]
    /\ UNCHANGED <<buildVars, holdoutVars, negativesVars, namesVars, repeatVars, walkVars, laterVars>>

\* a call of Graph::get_dense_nodes_mapping
CallDenseNodesMapping ==
    /\ pc = "graph"
    /\ answer' = [op |-> "get_dense_nodes_mapping", value |-> get_dense_nodes_mapping]
    /\ UNCHANGED <<buildVars, holdoutVars, negativesVars, namesVars, repeatVars, walkVars, laterVars>>

InitQueries == InitGraph /\ Idle /\ overflow_checks = FALSE

NextQueries ==
    \/ CallDegree
    \/ CallDenseNodesMapping

SpecQueries == InitQueries /\ [][NextQueries]_vars

\* the ids (from 0) of the stored edges with source u
EdgeIdsFrom(u) == {i - 1 : i \in {j \in EdgeIds : sources[j] = u}}

\* C18: for every node u of a constructed graph, degree(u) is the number of
\* stored edges with source u and is max - min of min_max_edge_ids(u) =
\* (rank(encode(u, 0)), rank(encode(u + 1, 0))), and the edge ids in
\* [min, max) are exactly the stored edges with source u.
C18_DegreeIsEdgeRange ==
    answer.op = "degree" =>
        LET u == answer.node
            min == answer.min_max[1]
            max == answer.min_max[2]
        IN /\ answer.value = Cardinality(EdgeIdsFrom(u))
           /\ min = unchecked_rank(edges, encode_edge(u, 0, node_bits))
           /\ max = unchecked_rank(edges, encode_edge(u + 1, 0, node_bits))
           /\ answer.value = max - min
           /\ min..(max - 1) = EdgeIdsFrom(u)

\* the degree of the last node of a graph was asked, after edges of other nodes
C18_Witness ==
    /\ answer.op = "degree" /\ answer.node = nodes_number - 1 /\ answer.node > 0
    /\ answer.min_max[1] > 0 /\ answer.value >= 2

\* C19: get_dense_nodes_mapping is a bijection from exactly the non-trap nodes
\* of the graph onto [0, not_trap_count), for directed graphs with trap nodes
\* as well as for undirected graphs.
C19_DenseMappingBijection ==
    answer.op = "get_dense_nodes_mapping" =>
        /\ {e[1] : e \in answer.value} = SeqRange(not_trap_nodes)
        /\ {e[2] : e \in answer.value} = 0..(get_not_trap_nodes_number - 1)
        /\ \A e, f \in answer.value : (e[1] = f[1]) <=> (e[2] = f[2])

\* ------------------------------------------------------------------ walks
walkFrame == <<rows, nodes_number, flagVars, stream, idx, frameVars, holdoutVars,
               negativesVars, namesVars, repeatVars, queryVars, laterVars>>

\* the nodes the stored edges of v lead to
Neighbours(v) ==
    {destinations[i + 1] :
        i \in get_min_max_edge(v)[1]..(get_min_max_edge(v)[2] - 1)}

\* a next node taken from all the nodes
NextNodes_AnyNode(v) == Nodes

\* the nodes a walk at v can go to next
NextNodes(v) == Neighbours(v)

\* EnsmallenGraph::walk: the walks start from the nodes 0 to
\* get_not_trap_nodes_number, iterations times each
WalkCall ==
    /\ pc = "graph"
    /\ \E l \in 2..MaxWalkLength, it \in 1..MaxIterations :
          /\ length' = l /\ iterations' = it
    /\ start_node' = 0 /\ end_node' = get_not_trap_nodes_number
    /\ source' = 0 /\ iteration' = 0 /\ walk' = <<>>
    /\ emitted' = [u \in Nodes |-> 0]
    /\ IF get_not_trap_nodes_number = 0
       THEN pc' = "walks_done" /\ result' = "Ok"
       ELSE pc' = "walking" /\ UNCHANGED result
    /\ UNCHANGED walkFrame

\* the walk under way has all its nodes, or is at a node without stored edges
WalkComplete ==
    /\ pc = "walking" /\ walk # <<>>
    /\ Len(walk) = length \/ NextNodes(walk[Len(walk)]) = {}

\* the walk under way starts, or goes on to a next node
WalkStep ==
    /\ pc = "walking" /\ ~WalkComplete
    /\ source \in StoredSources
    /\ IF walk = <<>>
       THEN walk' = <<source>>
       ELSE \E v \in NextNodes(walk[Len(walk)]) : walk' = Append(walk, v)
    /\ UNCHANGED <<pc, result, length, iterations, start_node, end_node, source,
                   iteration, emitted>>
    /\ UNCHANGED walkFrame

\* the walk under way is emitted, or there is none from a node without stored
\* edges; the next start node or the next iteration follows
WalkEmit ==
    /\ pc = "walking"
    /\ WalkComplete \/ source \notin StoredSources
    /\ emitted' = (IF WalkComplete THEN [emitted EXCEPT ![source] = @ + 1]
                   ELSE emitted)
    /\ walk' = <<>>
    /\ IF source + 1 < end_node
       THEN source' = source + 1 /\ UNCHANGED <<iteration, pc, result>>
       ELSE IF iteration + 1 < iterations
       THEN source' = start_node /\ iteration' = iteration + 1 /\ UNCHANGED <<pc, result>>
       ELSE pc' = "walks_done" /\ result' = "Ok" /\ UNCHANGED <<source, iteration>>
    /\ UNCHANGED <<length, iterations, start_node, end_node>>
    /\ UNCHANGED walkFrame

\* every untyped graph on at most MaxGraphNodes nodes with at most
\* MaxGraphEdges edges
InitWalks ==
    /\ \E n \in 0..MaxGraphNodes, dir \in BOOLEAN :
          \E E \in EdgeLists(n, dir, FALSE) : IsGraphOf(n, dir, FALSE, E)
    /\ Idle /\ overflow_checks = FALSE

NextWalks ==
    \/ WalkCall
    \/ WalkStep
    \/ WalkEmit

SpecWalks == InitWalks /\ [][NextWalks]_vars

\* every node has a stored edge to go on with
NoTrapNodes == StoredSources = Nodes

WeightedEdgeLists(n, dir, typed) ==
    UNION {{{Quadruple(e.src, e.dst, e.edge_type, w[e]) : e \in E} :
               w \in [E -> WeightValues]} :
           E \in EdgeLists(n, dir, typed) \ {{}}}

\* Graph::unique_edges.keys(): the node pairs that have a stored edge
unique_edges_keys == {decode_edge(edges[i]) : i \in EdgeIds}

RECURSIVE SumOfWeights(_)
SumOfWeights(ids) ==
    IF ids = {} THEN 0
    ELSE LET i == CHOOSE j \in ids : TRUE
         IN weights.v[i] + SumOfWeights(ids \ {i})

\* the weight drop_edge_types gives the edge from src to dst, as the pair
\* <<numerator, denominator>>: the sum of the weights over their number
DroppedWeight(src, dst) ==
    LET edge_ids == get_unchecked_edge_ids_range(src, dst)
    IN IF weights.some THEN <<SumOfWeights(edge_ids), Cardinality(edge_ids)>> ELSE None

\* Graph::drop_edge_types
drop_edge_types ==
    /\ pc = "graph"
    /\ answer' =
          (IF ~edge_type_ids.some
           THEN [op |-> "drop_edge_types", result |-> "Err", edges |-> {}]
           ELSE LET kept == {k \in unique_edges_keys : directed \/ k[1] <= k[2]}
                    unique_edges_tree == {Quadruple(k[1], k[2], None, DroppedWeight(k[1], k[2])) :
                                k \in kept}
                IN [op |-> "drop_edge_types", result |-> "Ok",
                    edges |-> IF directed THEN unique_edges_tree
                              ELSE unique_edges_tree \cup {Mirror(e) : e \in unique_edges_tree}])
    /\ UNCHANGED <<buildVars, holdoutVars, negativesVars, namesVars, repeatVars, walkVars, laterVars>>

\* every graph within the bounds, weighted or not
InitDrop ==
    /\ \E n \in 0..MaxGraphNodes, dir \in BOOLEAN, typed \in BOOLEAN :
          \E E \in EdgeLists(n, dir, typed) \cup WeightedEdgeLists(n, dir, typed) :
             IsGraphOf(n, dir, typed, E)
    /\ Idle /\ overflow_checks = FALSE

SpecDrop == InitDrop /\ [][drop_edge_types]_vars

\* C21: drop_edge_types returns a new graph without edge types in which each
\* endpoint pair of the parent is a single edge and, when the parent is
\* weighted, that edge's weight is the sum of the weights of all the parent's
\* edges with the same src and dst; it returns an error when the parent has
\* no edge types.
C21_DropEdgeTypesSumsWeights ==
    answer.op = "drop_edge_types" =>
        IF ~edge_type_ids.some THEN answer.result = "Err"
        ELSE /\ answer.result = "Ok"
             /\ \A e \in answer.edges : e.edge_type = None
             /\ {<<e.src, e.dst>> : e \in answer.edges} = unique_edges_keys
             /\ \A e, f \in answer.edges : (e.src = f.src /\ e.dst = f.dst) => e = f
             /\ weights.some =>
                   \A e \in answer.edges :
                      e.weight[1] = e.weight[2]
                                    * SumOfWeights(get_unchecked_edge_ids_range(e.src, e.dst))

\* ------------------------------------------------------------------ the textual report
Callers == 1..MaxCallers

\* the frame of a step of textual_report
reportFrame == <<buildVars, holdoutVars, negativesVars, namesVars, repeatVars,
                 queryVars, walkVars, subgraphVars>>

\* Graph::has_nodes
has_nodes == nodes_number > 0

\* "The graph {} is empty."
EmptyReport == <<"empty">>

\* the Err of a computation that failed
Failed == <<"Err">>

\* the rendered report; it carries the caller that rendered it, so that two
\* renderings are told apart
Report(c) == <<"report", c>>

\* `if let Some(report) = &*ptr` under the write guard, left out
AlreadyFilled_Unchecked == FALSE

\* `if let Some(report) = &*ptr` under the write guard
AlreadyFilled == cached_report # NoReport

\* the read guards left when the scope of caller c's read guard ends, with the
\* guard kept over the scope
ReleasedReaders_Kept(c) == readers

\* the read guards left when the scope of caller c's read guard ends
ReleasedReaders(c) == readers \ {c}

Return(c, value) ==
    /\ returned' = [returned EXCEPT ![c] = value]
    /\ caller_pc' = [caller_pc EXCEPT ![c] = "done"]

\* self.cached_report.read(): granted while no caller holds the write guard
ReadLock(c) ==
    /\ caller_pc[c] = "start"
    /\ writer = None
    /\ readers' = readers \cup {c}
    /\ caller_pc' = [caller_pc EXCEPT ![c] = "reading"]
    /\ UNCHANGED <<cached_report, writer, returned, reportFrame>>

\* the scope of the read guard: return the cached report if there is one
ReadCheck(c) ==
    /\ caller_pc[c] = "reading"
    /\ IF cached_report # NoReport
       THEN /\ Return(c, cached_report)
            /\ readers' = readers \ {c}
       ELSE /\ caller_pc' = [caller_pc EXCEPT ![c] = "has_nodes"]
            /\ readers' = ReleasedReaders(c)
            /\ UNCHANGED returned
    /\ UNCHANGED <<cached_report, writer, reportFrame>>

\* `if !self.has_nodes()`
CheckNodes(c) ==
    /\ caller_pc[c] = "has_nodes"
    /\ IF ~has_nodes
       THEN Return(c, EmptyReport)
       ELSE /\ caller_pc' = [caller_pc EXCEPT ![c] = "waiting"]
            /\ UNCHANGED returned
    /\ UNCHANGED <<cached_report, readers, writer, reportFrame>>

\* self.cached_report.write(): granted while no caller holds any guard
WriteLock(c) ==
    /\ caller_pc[c] = "waiting"
    /\ writer = None /\ readers = {}
    /\ writer' = c
    /\ caller_pc' = [caller_pc EXCEPT ![c] = "locked"]
    /\ UNCHANGED <<cached_report, readers, returned, reportFrame>>

\* under the write guard: return the report another caller cached, or render
\* the report, store it and return it; the guard is dropped on return
Render(c) ==
    /\ caller_pc[c] = "locked"
    /\ IF AlreadyFilled
       THEN Return(c, cached_report) /\ UNCHANGED cached_report
       ELSE /\ cached_report' = Report(c)
            /\ Return(c, Report(c))
    /\ writer' = None
    /\ UNCHANGED <<readers, reportFrame>>

\* under the write guard: the rendering fails (the `?` of format_node_list),
\* the guard is dropped on return
RenderFails(c) ==
    /\ caller_pc[c] = "locked"
    /\ ~AlreadyFilled
    /\ Return(c, Failed)
    /\ writer' = None
    /\ UNCHANGED <<cached_report, readers, reportFrame>>

\* MaxCallers threads call textual_report on one graph
InitReport ==
    /\ \E n \in 0..MaxGraphNodes, dir \in BOOLEAN :
          \E E \in EdgeLists(n, dir, FALSE) : IsGraphOf(n, dir, FALSE, E)
    /\ HoldoutIdle /\ NegativesIdle /\ NamesIdle /\ RepeatIdle /\ ExtraIdle
    /\ SubgraphIdle /\ overflow_checks = FALSE
    /\ cached_report = NoReport /\ readers = {} /\ writer = None
    /\ caller_pc = [c \in Callers |-> "start"]
    /\ returned = [c \in Callers |-> NoReport]

NextReport ==
    \E c \in Callers :
        \/ ReadLock(c)
        \/ ReadCheck(c)
        \/ CheckNodes(c)
        \/ WriteLock(c)
        \/ Render(c)
        \/ RenderFails(c)

SpecReport == InitReport /\ [][NextReport]_vars

\* some caller has not returned, and no caller can take a step
Deadlocked == (\E c \in Callers : caller_pc[c] # "done") /\ ~ENABLED NextReport

ReportProtocol ==
    /\ ~Deadlocked
    \* the write guard is held only inside the critical section, by one caller
    /\ writer # None => caller_pc[writer] = "locked" /\ readers = {}
    /\ \A c \in Callers :
          /\ caller_pc[c] = "done" => c \notin readers /\ writer # c
          \* every caller that returns a report returns the cached one
          /\ (returned[c] \notin {NoReport, Failed, EmptyReport})
                => returned[c] = cached_report /\ cached_report # NoReport
          /\ returned[c] = EmptyReport => ~has_nodes

\* the cache is written at most once, and a failing caller leaves it empty
\* and the write guard free
ReportWrittenOnce ==
    /\ cached_report # NoReport => cached_report' = cached_report
    /\ \A c \in Callers :
          (returned[c] # Failed /\ returned'[c] = Failed)
             => cached_report' = NoReport /\ writer = c /\ writer' = None

\* C22: concurrent textual_report calls on one graph never deadlock on the
\* read-write lock, the report is written by at most one caller, the cache
\* once set is never overwritten, and every caller that returns a report
\* returns the cached one; a caller whose computation fails releases the
\* write lock and leaves the cache empty.
C22_ReportCachedOnce == []ReportProtocol /\ [][ReportWrittenOnce]_vars

\* two callers have returned the report that one of them rendered
C22_Witness ==
    \E c, d \in Callers :
        /\ c # d /\ caller_pc[c] = "done" /\ caller_pc[d] = "done"
        /\ returned[c] = Report(c) /\ returned[d] = Report(c)

\* a caller has failed and the cache is empty and unlocked
C22_WitnessFailed ==
    \E c \in Callers : returned[c] = Failed /\ cached_report = NoReport /\ writer = None

\* ------------------------------------------------------------------ type ids
NodeTypeIds == {0, 1}

\* Vec indexing `ids[id]` (ids from 0): the element, or the panic of an index
\* out of bounds
IndexOrPanic(ids, id) ==
    IF id < Len(ids) THEN [result |-> "Ok", value |-> ids[id + 1]]
    ELSE [result |-> "Panic", value |-> None]

\* the body of get_node_type_id and of get_edge_type_id on the Option of the
\* ids vector
get_type_id(types, id) ==
    IF types.some
    THEN IF id <= Len(types.v) THEN IndexOrPanic(types.v, id)
         ELSE [result |-> "OutOfRange", value |-> None]
    ELSE [result |-> "NotDefined", value |-> None]

\* Graph::get_node_type_id; the node types of the graph are drawn with the call
CallGetNodeTypeId ==
    /\ pc = "graph"
    /\ \E node_types \in {NoVec} \cup {Some(v) : v \in [1..nodes_number -> NodeTypeIds]} :
          \E node_id \in 0..(nodes_number + 1) :
             answer' = [op |-> "get_node_type_id", types |-> node_types, id |-> node_id,
                        got |-> get_type_id(node_types, node_id)]
    /\ UNCHANGED <<buildVars, holdoutVars, negativesVars, namesVars, repeatVars, walkVars, laterVars>>

\* Graph::get_edge_type_id
CallGetEdgeTypeId ==
    /\ pc = "graph"
    /\ \E edge_id \in 0..(Len(edges) + 1) :
          answer' = [op |-> "get_edge_type_id", types |-> edge_type_ids, id |-> edge_id,
                     got |-> get_type_id(edge_type_ids, edge_id)]
    /\ UNCHANGED <<buildVars, holdoutVars, negativesVars, namesVars, repeatVars, walkVars, laterVars>>

NextTypeIds ==
    \/ CallGetNodeTypeId
    \/ CallGetEdgeTypeId

SpecTypeIds == InitQueries /\ [][NextTypeIds]_vars

\* C23: get_node_type_id(node_id) and get_edge_type_id(edge_id) return an
\* OutOfRange error, and never panic, for every id that is not a valid index
\* of the node-type (respectively edge-type) id vector, including the id
\* equal to the vector's length; for every valid id they return the stored
\* type id.
C23_TypeIdOutOfRange ==
    (answer.op \in {"get_node_type_id", "get_edge_type_id"} /\ answer.types.some) =>
        /\ answer.got.result # "Panic"
        /\ IF answer.id < Len(answer.types.v)
           THEN answer.got = [result |-> "Ok", value |-> answer.types.v[answer.id + 1]]
           ELSE answer.got.result = "OutOfRange"

\* ------------------------------------------------------------------ the xorshift state
\* a u64 is the set of the positions of its one bits
Bits == 0..63

Zero == {}

Xor(x, y) == (x \ y) \cup (y \ x)

ShiftLeft(x, k) == {i + k : i \in {j \in x : j + k <= 63}}

ShiftRight(x, k) == {i - k : i \in {j \in x : j >= k}}

\* the constant the random_state is xor-ed with: a fixed non-zero word
SEED_XOR ==
    {0, 4, 8, 10, 11, 13, 14, 15, 17, 18, 19, 20, 22, 24, 26, 27, 29, 31, 32, 33, 35,
     36, 38, 39, 41, 42, 43, 45, 46, 47, 48, 50, 52, 54, 55, 57, 59, 60, 61, 63}

\* rand_u64: one round of xorshift on 64 bits
rand_u64(x) ==
    LET a == Xor(x, ShiftLeft(x, 13))
        b == Xor(a, ShiftRight(a, 7))
    IN Xor(b, ShiftLeft(b, 17))

\* the random_state arguments looked at: the words with at most one bit, and
\* the words that differ from SEED_XOR in at most one bit
RandomStateWords ==
    LET few == {Zero} \cup {{i} : i \in Bits}
    IN few \cup {Xor(SEED_XOR, x) : x \in few}

xorshiftFrame == <<buildVars, holdoutVars, negativesVars, namesVars, shuffled, earlier,
                   walkVars, laterVars>>

\* `random_state ^= SEED_XOR as EdgeT` of sample_negatives
SeedState ==
    /\ answer = NoAnswer
    /\ \E word \in RandomStateWords :
          /\ random_state' = Xor(word, SEED_XOR)
          /\ answer' = [op |-> "sample_negatives", random_state |-> word, batches |-> 0]
    /\ UNCHANGED xorshiftFrame

\* `random_state = rand_u64(random_state)` at the head of the sampling loop
NextBatch ==
    /\ answer # NoAnswer
    /\ answer.batches < MaxBatches
    /\ random_state' = rand_u64(random_state)
    /\ answer' = [answer EXCEPT !.batches = @ + 1]
    /\ UNCHANGED xorshiftFrame

InitXorshift ==
    /\ IsGraphOf(0, TRUE, FALSE, {})
    /\ HoldoutIdle /\ NegativesIdle /\ NamesIdle /\ ExtraIdle /\ LaterIdle
    /\ overflow_checks = FALSE
    /\ random_state = Zero /\ shuffled = NotKept /\ earlier = NoCall

SpecXorshift == InitXorshift /\ [][SeedState \/ NextBatch]_vars

\* C27: for every value of random_state, the xorshift state of
\* sample_negatives (random_state XOR SEED_XOR, then xorshift-ed at every
\* batch) is never zero.
C27_StateNeverZero == answer # NoAnswer => random_state # Zero

\* ------------------------------------------------------------------ the sampling loop under fair draws
\* the pairs of node ids a random key can be reduced to
CandidatePairs == (0..(MaxGraphNodes - 1)) \X (0..(MaxGraphNodes - 1))

\* an iteration of the sampling loop that draws the pair e and keeps it
DrawPair(e) ==
    /\ SampleNegativesChunk
    /\ ~(NegativeKeys(e[1], e[2]) \subseteq negative_edges_bitmap)
    /\ NegativeKeys(e[1], e[2]) \subseteq negative_edges_bitmap'

\* every candidate pair is drawn again and again, and the call goes on after
\* its loop
SpecNegativesFair ==
    /\ SpecNegatives
    /\ \A e \in CandidatePairs : WF_vars(DrawPair(e))
    /\ WF_vars(SampleNegativesBuild)

\* C28: whenever sample_negatives passes its argument checks, the sampling
\* loop eventually terminates, given that every candidate pair is drawn
\* infinitely often, with or without a seed graph.
C28_SamplingTerminates == (pc = "sampling") ~> (pc = "negatives_done")

\* ------------------------------------------------------------------ parse_sorted_edges called on its own
\* the sorted streams in which every row has src <= dst
ForwardStreams(n) == {s \in SortedStreams(n) : \A i \in 1..Len(s) : s[i].src <= s[i].dst}

\* a caller holds a sorted stream of forward rows
PrepareForwardStream ==
    /\ pc = "input"
    /\ rows = <<>>
    /\ \E n \in 0..MaxNodes :
          \E s \in ForwardStreams(n) :
             /\ rows' = s
             /\ nodes_number' = n
    /\ pc' = "call"
    /\ UNCHANGED <<flagVars, stream, idx, frameVars, result>>
    /\ UNCHANGED <<holdoutVars, negativesVars, namesVars, repeatVars, extraVars>>

\* parse_sorted_edges, its output collected
CallParseSortedEdges ==
    /\ pc = "call"
    /\ \E dir \in BOOLEAN, del \in BOOLEAN :
          answer' = [op |-> "parse_sorted_edges", directed |-> dir,
                     directed_edge_list |-> del,
                     out |-> parse_sorted_edges(rows, dir, del)]
    /\ pc' = "parsed"
    /\ UNCHANGED <<rows, nodes_number, flagVars, stream, idx, frameVars, result>>
    /\ UNCHANGED <<holdoutVars, negativesVars, namesVars, repeatVars, walkVars, laterVars>>

SpecSorted == Init /\ [][PrepareForwardStream \/ CallParseSortedEdges]_vars

\* the positions of a stream that hold the row r
Occurrences(s, r) == {j \in 1..Len(s) : s[j] = r}

\* C29: for an undirected graph with directed_edge_list = false,
\* parse_sorted_edges fed a stream sorted by (src, dst, edge_type) in which
\* every row has src <= dst emits a stream that is again sorted and contains
\* every input row plus, for every input row with src < dst, exactly one
\* mirrored row (dst, src, edge_type) carrying the same weight; for directed
\* graphs or directed_edge_list = true the stream is passed through unchanged.
C29_SortedMirrored ==
    answer.op = "parse_sorted_edges" =>
        IF answer.directed \/ answer.directed_edge_list
        THEN answer.out = rows
        ELSE /\ IsSortedStream(answer.out)
             /\ \A i \in 1..Len(rows) :
                   /\ Cardinality(Occurrences(answer.out, rows[i]))
                         = Cardinality(Occurrences(rows, rows[i]))
                   /\ rows[i].src < rows[i].dst =>
                         /\ Cardinality({j \in 1..Len(answer.out) :
                               Triple(answer.out[j]) = Triple(Mirror(rows[i]))}) = 1
                         /\ Occurrences(answer.out, Mirror(rows[i])) # {}
             /\ \A j \in 1..Len(answer.out) :
                   \E i \in 1..Len(rows) : answer.out[j] \in {rows[i], Mirror(rows[i])}

\* ------------------------------------------------------------------ random_subgraph
subgraphFrame == <<rows, nodes_number, flagVars, stream, idx, frameVars, holdoutVars,
                   negativesVars, namesVars, repeatVars, queryVars, walkVars, reportVars>>

\* Graph::is_node_trap
is_node_trap(node) == degree(node) = 0

\* Graph::get_source_destinations_range: the destinations of the stored edges
\* of src, in the order of the edges
get_source_destinations_range(src) ==
    [i \in 1..degree(src) |-> destinations[get_min_max_edge(src)[1] + i]]

\* `unique_nodes.insert(*node); unique_nodes.insert(dst);`
Inserted(node, dst) == {node, dst}

\* the `for dst in ...` loop of random_subgraph from its i-th destination;
\* st.done is the `break 'outer`
RECURSIVE VisitDestinations(_, _, _, _, _)
VisitDestinations(st, node, src, dsts, i) ==
    IF i > Len(dsts) THEN st
    ELSE LET dst == dsts[i]
             pushed == IF dst \notin st.unique_nodes /\ src # dst
                       THEN Append(st.stack, dst) ELSE st.stack
             unique == st.unique_nodes \cup Inserted(node, dst)
         IN IF Cardinality(unique) >= subgraph_nodes_number
            THEN [stack |-> pushed, unique_nodes |-> unique, done |-> TRUE]
            ELSE VisitDestinations(
                    [stack |-> pushed, unique_nodes |-> unique, done |-> FALSE],
                    node, src, dsts, i + 1)

\* the `while !stack.is_empty()` loop of random_subgraph
RECURSIVE DrainStack(_, _)
DrainStack(st, node) ==
    IF st.done \/ st.stack = <<>> THEN st
    ELSE LET src == st.stack[Len(st.stack)]
             popped == [st EXCEPT !.stack = SubSeq(st.stack, 1, Len(st.stack) - 1)]
         IN DrainStack(VisitDestinations(popped, node, src,
                                         get_source_destinations_range(src), 1), node)

\* Graph::random_subgraph up to its loop over the shuffled nodes
random_subgraph ==
    /\ pc = "graph"
    /\ \E k \in 0..(nodes_number + 1) :
          /\ subgraph_nodes_number' = k
          /\ IF k <= 1 \/ k > not_singleton_node_number
             THEN /\ result' = "InvalidInput"
                  /\ pc' = "subgraph_done"
                  /\ UNCHANGED shuffled_nodes
             ELSE /\ shuffled_nodes' = Nodes
                  /\ pc' = "subgraph"
                  /\ UNCHANGED result
    /\ UNCHANGED <<unique_nodes, subgraph>>
    /\ UNCHANGED subgraphFrame

\* one iteration of `'outer: for node in nodes.iter()`, on the next node of
\* the shuffled vector
SubgraphNode ==
    /\ pc = "subgraph"
    /\ shuffled_nodes # {}
    /\ \E node \in shuffled_nodes :
          LET st == IF is_node_trap(node)
                    THEN [stack |-> <<>>, unique_nodes |-> unique_nodes, done |-> FALSE]
                    ELSE DrainStack([stack |-> <<node>>, unique_nodes |-> unique_nodes,
                                     done |-> FALSE], node)
          IN /\ unique_nodes' = st.unique_nodes
             /\ shuffled_nodes' = shuffled_nodes \ {node}
             /\ pc' = (IF st.done \/ shuffled_nodes' = {} THEN "subgraph_end" ELSE "subgraph")
    /\ UNCHANGED <<subgraph_nodes_number, subgraph, result>>
    /\ UNCHANGED subgraphFrame

\* random_subgraph after its loop: the edges between the collected nodes
SubgraphBuild ==
    /\ pc = "subgraph_end"
    /\ LET edges_bitmap ==
              UNION {{edge_id \in (get_min_max_edge(src)[1] + 1)..get_min_max_edge(src)[2] :
                         destinations[edge_id] \in unique_nodes} : src \in unique_nodes}
       IN subgraph' = Subgraph(edges_bitmap)
    /\ result' = "Ok"
    /\ pc' = "subgraph_done"
    /\ UNCHANGED <<subgraph_nodes_number, shuffled_nodes, unique_nodes>>
    /\ UNCHANGED subgraphFrame

\* the graphs without edge types on up to MaxGraphNodes + 1 nodes
InitSubgraph ==
    /\ \E n \in 0..(MaxGraphNodes + 1), dir \in BOOLEAN :
          \E E \in EdgeLists(n, dir, FALSE) : IsGraphOf(n, dir, FALSE, E)
    /\ Idle /\ overflow_checks = FALSE

NextSubgraph ==
    \/ random_subgraph
    \/ SubgraphNode
    \/ SubgraphBuild

SpecSubgraph == InitSubgraph /\ [][NextSubgraph]_vars

\* C30: for every graph and every requested K with
\* 1 < K <= not_singleton_nodes_number, random_subgraph collects exactly K
\* nodes (never more, also when the traversal goes on into a further
\* connected component) and returns a graph whose edges are exactly the
\* parent's edges with both endpoints in the collected set; it returns an
\* error for K <= 1 or K > not_singleton_nodes_number.
C30_ExactlyKNodes ==
    pc = "subgraph_done" =>
        IF subgraph_nodes_number <= 1 \/ subgraph_nodes_number > not_singleton_node_number
        THEN result = "InvalidInput"
        ELSE /\ result = "Ok"
             /\ Cardinality(unique_nodes) = subgraph_nodes_number
             /\ SeqRange(subgraph)
                   = {get_edge_quadruple(i) : i \in {j \in EdgeIds :
                         /\ get_edge_quadruple(j).src \in unique_nodes
                         /\ get_edge_quadruple(j).dst \in unique_nodes}}
====
